---- MODULE Spec2Model ----
(***************************************************************************)
(* Execution tracer of weni.tracing (src/weni/tracing/tracer.py): the      *)
(* @trace decorator, the TracedAgent mixin, the value serializer and the   *)
(* argument extractor.                                                     *)
(*                                                                         *)
(* Python values are tagged records, so that values of different Python    *)
(* types can be compared: None, int, str, list, tuple, dict (an ordered    *)
(* sequence of <<key, value>> pairs), "object" (an instance with a         *)
(* __dict__) and "other" (anything else, e.g. a set or an instance of a    *)
(* __slots__ class; strOk says whether str(value) returns or raises).      *)
(*                                                                         *)
(* One instance is explored per behaviour. Decorated methods are called    *)
(* from outside or from the body of a decorated method in flight; a body   *)
(* ends by returning a value or by an exception (its own, or the one of a  *)
(* call it made and did not catch). The clock never goes backwards.        *)
(*                                                                         *)
(* Spec is the tracer on one instance, with _reset_tracer called only      *)
(* while no decorated method is in flight; SpecEntry adds the entry points *)
(* that hand the summary out (Tool.__new__, PreProcessor.__new__,          *)
(* Rule._wrap_execute_result); SpecSerialize is _serialize_value and       *)
(* SpecExtract is _extract_args, each called on its own; SpecCapture calls *)
(* methods decorated with each combination of capture_input and            *)
(* capture_output; SpecThreads is two threads inside the wrapper on one    *)
(* instance, one statement at a time; SpecReset lets the body of a         *)
(* decorated method call _reset_tracer; SpecBroadcast is                   *)
(* weni.broadcasts.BroadcastEvent (src/weni/broadcasts/broadcast.py) with  *)
(* its context variable. completed, discarded and reset_at are history     *)
(* variables: no operation reads them.                                     *)
(***************************************************************************)
EXTENDS Integers, Sequences, FiniteSets, TLC

VARIABLES
  receiver,             \* class of the instance the decorated methods are called on
  _tracer_initialized,  \* TracedAgent._tracer_initialized
  _execution_trace,     \* <<>> when the attribute is absent, else <<ExecutionTrace>>
  stack,                \* wrapper activations in flight, innermost last
  outcome,              \* how the wrapper activation that just ended left, and what
                        \* its method had done (NoOutcome after any other operation)
  result,               \* what the _get_trace_summary / _inject_trace call that just
                        \* ended (at instant "at") returned (NoResult after any
                        \* other operation)
  now,                  \* datetime.utcnow(), in microseconds
  calls,                \* number of wrapper activations so far
  completed,            \* history: the decorated calls on a traced instance whose
                        \* method has returned, since construction or the last
                        \* _reset_tracer
  discarded,            \* history: total_steps of the summary of the trace the last
                        \* _reset_tracer deleted (0 when there was none)
  threads,              \* where each thread stands in the wrapper it runs (<<>> when
                        \* the instance is used by one thread only)
  contexts,             \* weni.broadcasts: per thread, what _pending_messages_var
                        \* holds in the thread's context, the list objects alive and
                        \* the tokens of the scopes entered and not yet left (<<>>
                        \* when no broadcast is in play)
  reset_at              \* history: the value of calls when _reset_tracer was last
                        \* called from the body of a decorated method in flight (0
                        \* when it never was): the activations numbered up to it
                        \* began before that reset

vars == <<receiver, _tracer_initialized, _execution_trace, stack, outcome, result,
          now, calls, completed, discarded, threads, contexts, reset_at>>

-----------------------------------------------------------------------------
(* Bounds of the model.                                                    *)

MaxCalls == 2

(* Program constants.                                                      *)

MaxItems == 50
DefaultMaxDepth == 3
DefaultMaxLength == 1000

\* one clock tick of the model, in microseconds
ClockStep == 7

\* the readings of the clock in the runs explored
Instants == {0, ClockStep}

-----------------------------------------------------------------------------
(* Python values.                                                          *)

PyNone == [t |-> "none"]
PyInt(i) == [t |-> "int", i |-> i]
PyStr(s) == [t |-> "str", s |-> s]
PyFloat(us) == [t |-> "float", us |-> us]
PyList(l) == [t |-> "list", l |-> l]
PyTuple(l) == [t |-> "tuple", l |-> l]
PyDict(d) == [t |-> "dict", d |-> d]
PyObject(cls) == [t |-> "object", cls |-> cls]
PyBool(b) == [t |-> "bool", b |-> b]
PyOther(text, strOk) == [t |-> "other", text |-> text, strOk |-> strOk]

Min(a, b) == IF a <= b THEN a ELSE b

\* d[k] = v on a dict: an existing key keeps its position, a new key goes last
DictSet(d, k, v) ==
  IF \E i \in 1..Len(d) : d[i][1] = k
  THEN [i \in 1..Len(d) |-> IF d[i][1] = k THEN <<k, v>> ELSE d[i]]
  ELSE Append(d, <<k, v>>)

DictHas(d, k) == \E i \in 1..Len(d) : d[i][1] = k

DictGet(d, k) == d[CHOOSE i \in 1..Len(d) : d[i][1] = k][2]

-----------------------------------------------------------------------------
(* _serialize_value                                                        *)

\* whether _serialize_value(value, max_depth, ...) raises: the only statement of
\* the function that runs code of the value is str(value) on the last line
RECURSIVE _serialize_value_raises(_, _)
_serialize_value_raises(value, max_depth) ==
  IF max_depth <= 0 THEN FALSE
  ELSE IF value.t \in {"none", "str", "int", "float", "bool"} THEN FALSE
  ELSE IF value.t \in {"list", "tuple"}
    THEN \E i \in 1..Min(Len(value.l), MaxItems) :
             _serialize_value_raises(value.l[i], max_depth - 1)
  ELSE IF value.t = "dict"
    THEN \E i \in 1..Min(Len(value.d), MaxItems) :
             _serialize_value_raises(value.d[i][2], max_depth - 1)
  ELSE IF value.t = "object" THEN FALSE
  ELSE ~value.strOk

\* _serialize_value with one of two changes: keep_depth, the elements of a
\* container are serialized with max_depth instead of max_depth - 1; no_marker, a
\* list of more than 50 items is cut to 50 without the "<n more items>" marker
RECURSIVE SerializeVariant(_, _, _, _, _)
SerializeVariant(value, max_depth, max_length, keep_depth, no_marker) ==
  LET below == IF keep_depth THEN max_depth ELSE max_depth - 1
      Sub(v) == SerializeVariant(v, below, max_length, keep_depth, no_marker)
  IN
  IF max_depth <= 0 THEN PyStr("<max_depth_exceeded>")
  ELSE IF value.t = "none" THEN PyNone
  ELSE IF value.t \in {"str", "int", "float", "bool"}
    THEN IF value.t = "str" /\ Len(value.s) > max_length
         THEN PyStr(SubSeq(value.s, 1, max_length) \o "...<truncated>")
         ELSE value
  ELSE IF value.t \in {"list", "tuple"}
    THEN IF Len(value.l) > MaxItems
         THEN PyList([i \in 1..MaxItems |-> Sub(value.l[i])]
                     \o IF no_marker THEN <<>>
                        ELSE <<PyStr("<" \o ToString(Len(value.l) - MaxItems)
                                         \o " more items>")>>)
         ELSE PyList([i \in 1..Len(value.l) |-> Sub(value.l[i])])
  ELSE IF value.t = "dict"
    THEN IF Len(value.d) > MaxItems
         THEN PyDict(DictSet(
                [i \in 1..MaxItems |-> <<value.d[i][1], Sub(value.d[i][2])>>],
                PyStr("<truncated>"),
                PyStr(ToString(Len(value.d) - MaxItems) \o " more keys")))
         ELSE PyDict([i \in 1..Len(value.d) |-> <<value.d[i][1], Sub(value.d[i][2])>>])
  ELSE IF value.t = "object" THEN PyStr("<" \o value.cls \o ">")
  ELSE PyStr(SubSeq(value.text, 1, Min(Len(value.text), max_length)))

\* _serialize_value passing max_depth on unchanged to the elements
_serialize_value_KeepDepth(value, max_depth, max_length) ==
  SerializeVariant(value, max_depth, max_length, TRUE, FALSE)

\* _serialize_value cutting a long list without saying so
_serialize_value_NoItemsMarker(value, max_depth, max_length) ==
  SerializeVariant(value, max_depth, max_length, FALSE, TRUE)

\* the value _serialize_value returns when it does not raise
RECURSIVE _serialize_value(_, _, _)
_serialize_value(value, max_depth, max_length) ==
  IF max_depth <= 0 THEN PyStr("<max_depth_exceeded>")
  ELSE IF value.t = "none" THEN PyNone
  ELSE IF value.t \in {"str", "int", "float", "bool"}
    THEN IF value.t = "str" /\ Len(value.s) > max_length
         THEN PyStr(SubSeq(value.s, 1, max_length) \o "...<truncated>")
         ELSE value
  ELSE IF value.t \in {"list", "tuple"}
    THEN IF Len(value.l) > MaxItems
         THEN PyList([i \in 1..MaxItems |->
                        _serialize_value(value.l[i], max_depth - 1, max_length)]
                     \o <<PyStr("<" \o ToString(Len(value.l) - MaxItems)
                                    \o " more items>")>>)
         ELSE PyList([i \in 1..Len(value.l) |->
                        _serialize_value(value.l[i], max_depth - 1, max_length)])
  ELSE IF value.t = "dict"
    THEN IF Len(value.d) > MaxItems
         THEN PyDict(DictSet(
                [i \in 1..MaxItems |->
                   <<value.d[i][1],
                     _serialize_value(value.d[i][2], max_depth - 1, max_length)>>],
                PyStr("<truncated>"),
                PyStr(ToString(Len(value.d) - MaxItems) \o " more keys")))
         ELSE PyDict([i \in 1..Len(value.d) |->
                   <<value.d[i][1],
                     _serialize_value(value.d[i][2], max_depth - 1, max_length)>>])
  ELSE IF value.t = "object" THEN PyStr("<" \o value.cls \o ">")
  ELSE PyStr(SubSeq(value.text, 1, Min(Len(value.text), max_length)))

-----------------------------------------------------------------------------
(* _extract_args                                                           *)

\* kwargs[name], kwargs being a sequence of <<name, value>> pairs
KwHas(kwargs, name) == \E i \in 1..Len(kwargs) : kwargs[i][1] = name

KwGet(kwargs, name) == kwargs[CHOOSE i \in 1..Len(kwargs) : kwargs[i][1] = name][2]

\* the loop over the declared parameters, from parameter k on: the values it
\* resolves, as <<name, value>> pairs in declaration order (not yet serialized)
RECURSIVE ResolveParams(_, _, _, _, _)
ResolveParams(params, k, args, args_index, kwargs) ==
  IF k > Len(params) THEN <<>>
  ELSE IF params[k] \in {"self", "cls"}
    THEN ResolveParams(params, k + 1, args,
                       IF args_index < Len(args) THEN args_index + 1 ELSE args_index,
                       kwargs)
  ELSE IF args_index < Len(args)
    THEN <<<<params[k], args[args_index + 1]>>>>
         \o ResolveParams(params, k + 1, args, args_index + 1, kwargs)
  ELSE IF KwHas(kwargs, params[k])
    THEN <<<<params[k], KwGet(kwargs, params[k])>>>>
         \o ResolveParams(params, k + 1, args, args_index, kwargs)
  ELSE ResolveParams(params, k + 1, args, args_index, kwargs)

\* the body of the try block raises when the serialization of a resolved value does
ExtractTryRaises(params, args, kwargs) ==
  LET r == ResolveParams(params, 1, args, 0, kwargs)
  IN  \E i \in 1..Len(r) : _serialize_value_raises(r[i][2], DefaultMaxDepth)

\* args[1:]
Tail1(args) == IF Len(args) = 0 THEN <<>> ELSE Tail(args)

\* _extract_args raises when the try block raises and the handler's own
\* _serialize_value(args[1:]) raises again
_extract_args_raises(params, args, kwargs) ==
  /\ ExtractTryRaises(params, args, kwargs)
  /\ _serialize_value_raises(PyTuple(Tail1(args)), DefaultMaxDepth)

\* the mapping _extract_args returns when it does not raise
_extract_args(params, args, kwargs) ==
  IF ExtractTryRaises(params, args, kwargs)
  THEN PyDict(<<<<PyStr("args"),
                  _serialize_value(PyTuple(Tail1(args)), DefaultMaxDepth,
                                   DefaultMaxLength)>>>>)
  ELSE LET r == ResolveParams(params, 1, args, 0, kwargs)
       IN  PyDict([i \in 1..Len(r) |->
                     <<PyStr(r[i][1]),
                       _serialize_value(r[i][2], DefaultMaxDepth, DefaultMaxLength)>>])

-----------------------------------------------------------------------------
(* The instances, methods, arguments and method behaviours explored.       *)

\* TracedTool(TracedAgent, Tool); PlainTool has no _auto_init_tracer;
\* HookOnlyTool has an _auto_init_tracer that creates no _execution_trace
Receivers == {"TracedTool", "PlainTool", "HookOnlyTool"}

HasTracedAgent(cls) == cls = "TracedTool"

\* the instance as a value: it carries a __dict__
Self == PyObject(receiver)

\* @trace() def execute(self, context)
\* @trace(capture_input=False, capture_output=False) def _authenticate(self, credentials)
Methods ==
  { [name |-> "execute", params |-> <<"self", "context">>,
     capture_input |-> TRUE, capture_output |-> TRUE],
    [name |-> "_authenticate", params |-> <<"self", "credentials">>,
     capture_input |-> FALSE, capture_output |-> FALSE] }

\* an instance of a __slots__ class whose __str__ returns a non-string:
\* str(value) raises TypeError
Unprintable == PyOther("", FALSE)

UnprintableError == [type |-> "TypeError", msg |-> "__str__ returned non-string (type int)"]

ArgValues == {PyInt(1), Unprintable}

\* the non-receiver arguments of a call of m: one value, positional or by keyword
CallShapes(m) ==
  { [args |-> <<v>>, kwargs |-> <<>>] : v \in ArgValues }
  \cup { [args |-> <<>>, kwargs |-> <<<<m.params[2], v>>>>] : v \in ArgValues }

ReturnValues == {PyDict(<<<<PyStr("ok"), PyInt(1)>>>>), Unprintable}

\* exceptions a method body raises: type and str(exc)
Raisable ==
  { [type |-> "ValueError", msg |-> "boom"],
    [type |-> "RuntimeError", msg |-> "bang"],
    [type |-> "KeyboardInterrupt", msg |-> ""] }

\* isinstance(exc, Exception): KeyboardInterrupt derives from BaseException only
IsException(exc) == exc.type # "KeyboardInterrupt"

\* an exception object: id tells objects with equal type and message apart (the
\* number of the wrapper activation during which it was created)
Exc(e, id) == [type |-> e.type, msg |-> e.msg, id |-> id]

NoExc == [type |-> "", msg |-> "", id |-> 0]

InjectInputs ==
  { PyDict(<<<<PyStr("result"), PyStr("test")>>>>),
    PyList(<<PyInt(1), PyInt(2)>>), PyStr("string"), PyNone }

-----------------------------------------------------------------------------
(* ExecutionStep, ExecutionTrace                                           *)

ExecutionStep(class_name, method_name, status, step_index, input_data, output_data, error, duration_ms) ==
  [class_name |-> class_name, method_name |-> method_name, status |-> status,
   step_index |-> step_index, input_data |-> input_data, output_data |-> output_data,
   error |-> error, duration_ms |-> duration_ms]

ExecutionTrace(agent_name, started_at, status) ==
  [agent_name |-> agent_name, started_at |-> started_at, status |-> status,
   steps |-> <<>>, error_summary |-> PyNone]

\* datetime.isoformat() + "Z": the text of an instant, kept as the instant it spells
IsoZ(us) == [t |-> "str", iso |-> us, suffix |-> "Z"]

\* datetime.fromisoformat(text.replace("Z", ""))
FromIso(text) == text.iso

\* hasattr(self, "_execution_trace")
HasTrace(tr) == tr # <<>>

-----------------------------------------------------------------------------
(* TracedAgent._auto_init_tracer                                           *)

\* AGENT_NAME is "" in the classes explored: the class name is used
AgentName(cls) == cls

\* _auto_init_tracer without the test of the flag: every call builds a new trace
_auto_init_tracer_NoFlagTest(init, tr, cls, t) ==
  [init |-> TRUE, tr |-> <<ExecutionTrace(AgentName(cls), IsoZ(t), "running")>>]

\* the instance's (_tracer_initialized, _execution_trace) after the call
_auto_init_tracer(init, tr, cls, t) ==
  IF ~init
  THEN [init |-> TRUE, tr |-> <<ExecutionTrace(AgentName(cls), IsoZ(t), "running")>>]
  ELSE [init |-> init, tr |-> tr]

\* WrapperAutoInit without the hasattr test: the mixin's hook runs on any instance
WrapperAutoInit_NoHasattr(init, tr, cls, t) == _auto_init_tracer(init, tr, cls, t)

\* lines 171-172 of the wrapper: the hook is called when the instance has one;
\* HookOnlyTool's hook does nothing
WrapperAutoInit(init, tr, cls, t) ==
  IF HasTracedAgent(cls) THEN _auto_init_tracer(init, tr, cls, t)
  ELSE [init |-> init, tr |-> tr]

-----------------------------------------------------------------------------
(* trace.decorator.wrapper                                                 *)

NoOutcome ==
  [kind |-> "none", val |-> PyNone, exc |-> NoExc,
   mkind |-> "none", mval |-> PyNone, mexc |-> NoExc,
   call |-> 0, traced |-> FALSE, step_index |-> -1, method |-> ""]

NoResult == [op |-> "none"]

\* how a wrapper activation ends: kind/val/exc is what its caller gets, mkind/mval/mexc
\* what the wrapped method did ("not_invoked" when it was never called)
Outcome(kind, val, exc, mkind, mval, mexc, f) ==
  [kind |-> kind, val |-> val, exc |-> exc, mkind |-> mkind, mval |-> mval,
   mexc |-> mexc, call |-> f.call, traced |-> f.traced, step_index |-> f.step_index,
   method |-> f.method.name]

\* an exception has reached the body of the innermost method in flight, which has
\* neither caught it nor let it through yet
Pending == stack # <<>> /\ outcome.kind = "raise"

Top == stack[Len(stack)]

Pop == SubSeq(stack, 1, Len(stack) - 1)

\* f"{type(exc).__name__}: {str(exc)}"
ErrorMsg(exc) == exc.type \o ": " \o exc.msg

\* AttributeError of self._execution_trace on an instance without the attribute
NoTraceError ==
  [type |-> "AttributeError",
   msg |-> "'TracedTool' object has no attribute '_execution_trace'"]

\* (datetime.utcnow() - start_time).total_seconds() * 1000, in thousandths of a ms
DurationMs(start_time, t) == PyFloat(t - start_time)

AppendStep(tr, step) == <<[tr[1] EXCEPT !.steps = Append(@, step)]>>

\* ExceptHandler without line 231: error_summary is left as it was
ExceptHandler_NoSummary(f, exc, tr, t) ==
  IF ~HasTrace(tr)
  THEN [tr |-> tr, exc |-> Exc(NoTraceError, f.call)]
  ELSE [tr |-> <<[tr[1] EXCEPT
                    !.steps = Append(@, ExecutionStep(f.class_name, f.method.name,
                                "failed", f.step_index, PyNone, PyNone,
                                PyStr(ErrorMsg(exc)), DurationMs(f.start_time, t))),
                    !.status = "failed"]>>,
        exc |-> exc]

\* lines 215-232: the handler of "except Exception": the trace after it, and the
\* exception that leaves the wrapper. Without an _execution_trace the handler's
\* first use of it raises AttributeError, which replaces exc
ExceptHandler(f, exc, tr, t) ==
  IF ~HasTrace(tr)
  THEN [tr |-> tr, exc |-> Exc(NoTraceError, f.call)]
  ELSE [tr |-> <<[tr[1] EXCEPT
                    !.steps = Append(@, ExecutionStep(f.class_name, f.method.name,
                                "failed", f.step_index, PyNone, PyNone,
                                PyStr(ErrorMsg(exc)), DurationMs(f.start_time, t))),
                    !.status = "failed",
                    !.error_summary = PyStr(ErrorMsg(exc))]>>,
        exc |-> exc]

\* lines 196-232 when func raised exc: [tr, exc] as for ExceptHandler; an exception
\* that is no Exception passes the except clause untouched
WrapperOnRaise(f, exc, tr, t) ==
  IF IsException(exc) THEN ExceptHandler(f, exc, tr, t)
  ELSE [tr |-> tr, exc |-> exc]

\* lines 199-213 when func returned value: the trace after it and how the wrapper
\* ends (raises |-> FALSE: it returns value). An exception raised on the way
\* (by _serialize_value, or by the use of a missing _execution_trace) is inside the
\* try block and goes to the handler
WrapperOnReturn(f, value, tr, t) ==
  IF f.method.capture_output /\ _serialize_value_raises(value, DefaultMaxDepth)
  THEN ExceptHandler(f, Exc(UnprintableError, f.call), tr, t) @@ [raises |-> TRUE]
  ELSE IF ~HasTrace(tr)
  THEN ExceptHandler(f, Exc(NoTraceError, f.call), tr, t) @@ [raises |-> TRUE]
  ELSE [raises |-> FALSE, exc |-> NoExc,
        tr |-> AppendStep(tr, ExecutionStep(f.class_name, f.method.name,
                 "completed", f.step_index, PyNone,
                 IF f.method.capture_output
                 THEN _serialize_value(value, DefaultMaxDepth, DefaultMaxLength)
                 ELSE PyNone,
                 PyNone, DurationMs(f.start_time, t)))]

\* lines 177-194: the activation record of a traced call and its STARTED step
Frame(m, traced, step_index, t, cls, n) ==
  [call |-> n, method |-> m, traced |-> traced, step_index |-> step_index,
   start_time |-> t, class_name |-> cls]

\* StartedStep without the test of capture_input: the arguments are always
\* extracted
StartedStep_CaptureAlways(f, args, kwargs) ==
  ExecutionStep(f.class_name, f.method.name, "started", f.step_index,
                _extract_args(f.method.params, <<Self>> \o args, kwargs),
                PyNone, PyNone, PyNone)

StartedStep(f, args, kwargs) ==
  ExecutionStep(f.class_name, f.method.name, "started", f.step_index,
                IF f.method.capture_input
                THEN _extract_args(f.method.params, <<Self>> \o args, kwargs)
                ELSE PyNone,
                PyNone, PyNone, PyNone)

-----------------------------------------------------------------------------
(* TracedAgent._get_trace_summary                                          *)

\* round(x, 2) of a number of milliseconds held in thousandths: to the nearest
\* hundredth, a tie going to the even hundredth
Round2(us) ==
  LET q == us \div 10
      r == us % 10
  IN  IF r < 5 THEN 10 * q
      ELSE IF r > 5 THEN 10 * (q + 1)
      ELSE IF q % 2 = 0 THEN 10 * q ELSE 10 * (q + 1)

\* round(step.duration_ms, 2) if step.duration_ms else 0
RoundedDuration(d) ==
  IF d.t = "none" \/ d.us = 0 THEN PyInt(0) ELSE PyFloat(Round2(d.us))

\* lines 319-340: one step folded into the entry g of its index (<<>>: no entry yet)
StepInto(g, step) ==
  LET g0 == IF g = <<>>
            THEN << <<PyStr("class"), PyStr(step.class_name)>>,
                    <<PyStr("method"), PyStr(step.method_name)>> >>
            ELSE g
  IN  IF step.status = "started"
      THEN DictSet(g0, PyStr("input"), step.input_data)
      ELSE IF step.status = "completed"
      THEN DictSet(DictSet(DictSet(g0, PyStr("output"), step.output_data),
                           PyStr("duration_ms"), RoundedDuration(step.duration_ms)),
                   PyStr("status"), PyStr("ok"))
      ELSE IF step.status = "failed"
      THEN DictSet(DictSet(DictSet(g0, PyStr("error"), step.error),
                           PyStr("duration_ms"), RoundedDuration(step.duration_ms)),
                   PyStr("status"), PyStr("failed"))
      ELSE g0

\* steps_by_index[idx] after the loop over the first n steps
RECURSIVE StepsByIndex(_, _, _)
StepsByIndex(steps, n, idx) ==
  IF n = 0 THEN <<>>
  ELSE IF steps[n].step_index = idx
  THEN StepInto(StepsByIndex(steps, n - 1, idx), steps[n])
  ELSE StepsByIndex(steps, n - 1, idx)

\* sorted(S) taking the largest first
RECURSIVE Sorted_Descending(_)
Sorted_Descending(S) ==
  IF S = {} THEN <<>>
  ELSE LET m == CHOOSE x \in S : \A y \in S : x >= y
       IN  <<m>> \o Sorted_Descending(S \ {m})

\* sorted(S) of a finite set of integers
RECURSIVE Sorted(_)
Sorted(S) ==
  IF S = {} THEN <<>>
  ELSE LET m == CHOOSE x \in S : \A y \in S : x <= y
       IN  <<m>> \o Sorted(S \ {m})

\* Emit without the test of "status": an index with only a STARTED step is
\* emitted too
RECURSIVE Emit_NoStatusTest(_, _, _, _)
Emit_NoStatusTest(steps, idxs, k, order) ==
  IF k > Len(idxs) THEN <<>>
  ELSE LET step_data == StepsByIndex(steps, Len(steps), idxs[k])
       IN  <<PyDict(DictSet(step_data, PyStr("order"), PyInt(order)))>>
           \o Emit_NoStatusTest(steps, idxs, k + 1, order + 1)

\* lines 342-349: the entries that have a status, in the order of idxs, numbered
\* from order on
RECURSIVE Emit(_, _, _, _)
Emit(steps, idxs, k, order) ==
  IF k > Len(idxs) THEN <<>>
  ELSE LET step_data == StepsByIndex(steps, Len(steps), idxs[k])
       IN  IF DictHas(step_data, PyStr("status"))
           THEN <<PyDict(DictSet(step_data, PyStr("order"), PyInt(order)))>>
                \o Emit(steps, idxs, k + 1, order + 1)
           ELSE Emit(steps, idxs, k + 1, order)

\* lines 352-362: total_duration_ms
TotalDuration(started_at, t) ==
  IF started_at.t = "str" /\ "iso" \in DOMAIN started_at
  THEN PyFloat(Round2(t - FromIso(started_at)))
  ELSE PyFloat(0)

\* truth value of an Optional[str]
Truthy(v) == v.t = "str" /\ v.s # ""

\* _get_trace_summary with one of two changes: shaped, the instance without a
\* trace gets a summary with no steps instead of the empty dict; raw, the status
\* of the trace is reported as it is stored
SummaryVariant(tr, t, shaped, raw) ==
  IF ~HasTrace(tr)
  THEN IF shaped
       THEN PyDict(<< <<PyStr("total_steps"), PyInt(0)>>,
                      <<PyStr("steps"), PyList(<<>>)>> >>)
       ELSE PyDict(<<>>)
  ELSE
    LET trace == tr[1]
        idxs == Sorted({trace.steps[i].step_index : i \in 1..Len(trace.steps)})
        steps == Emit(trace.steps, idxs, 1, 1)
        trace_data ==
          << <<PyStr("agent_name"), PyStr(trace.agent_name)>>,
             <<PyStr("started_at"), trace.started_at>>,
             <<PyStr("completed_at"), IsoZ(t)>>,
             <<PyStr("total_duration_ms"), TotalDuration(trace.started_at, t)>>,
             <<PyStr("status"),
               PyStr(IF trace.status = "running" /\ ~raw THEN "completed"
                     ELSE trace.status)>>,
             <<PyStr("total_steps"), PyInt(Len(steps))>>,
             <<PyStr("steps"), PyList(steps)>> >>
    IN  IF Truthy(trace.error_summary)
        THEN PyDict(DictSet(trace_data, PyStr("error_summary"), trace.error_summary))
        ELSE PyDict(trace_data)

\* _get_trace_summary building its ordinary shape, with no steps, for an instance
\* that has no trace
_get_trace_summary_EmptyShape(tr, t) == SummaryVariant(tr, t, TRUE, FALSE)

\* _get_trace_summary reporting the status as the trace stores it
_get_trace_summary_RawStatus(tr, t) == SummaryVariant(tr, t, FALSE, TRUE)

_get_trace_summary(tr, t) ==
  IF ~HasTrace(tr) THEN PyDict(<<>>)
  ELSE
    LET trace == tr[1]
        idxs == Sorted({trace.steps[i].step_index : i \in 1..Len(trace.steps)})
        steps == Emit(trace.steps, idxs, 1, 1)
        trace_data ==
          << <<PyStr("agent_name"), PyStr(trace.agent_name)>>,
             <<PyStr("started_at"), trace.started_at>>,
             <<PyStr("completed_at"), IsoZ(t)>>,
             <<PyStr("total_duration_ms"), TotalDuration(trace.started_at, t)>>,
             <<PyStr("status"),
               PyStr(IF trace.status = "running" THEN "completed" ELSE trace.status)>>,
             <<PyStr("total_steps"), PyInt(Len(steps))>>,
             <<PyStr("steps"), PyList(steps)>> >>
    IN  IF Truthy(trace.error_summary)
        THEN PyDict(DictSet(trace_data, PyStr("error_summary"), trace.error_summary))
        ELSE PyDict(trace_data)

-----------------------------------------------------------------------------
(* TracedAgent._inject_trace, TracedAgent._reset_tracer                    *)

\* _inject_trace building a new dict instead of storing into the one passed
_inject_trace_Copy(data, init, tr, t) ==
  IF data.t = "dict" /\ init
  THEN [arg |-> data,
        ret |-> PyDict(DictSet(data.d, PyStr("_execution_trace"),
                               _get_trace_summary(tr, t))),
        same |-> FALSE]
  ELSE [arg |-> data, ret |-> data, same |-> TRUE]

\* _inject_trace without the test of _tracer_initialized
_inject_trace_NoFlagTest(data, init, tr, t) ==
  IF data.t = "dict"
  THEN LET d == PyDict(DictSet(data.d, PyStr("_execution_trace"),
                               _get_trace_summary(tr, t)))
       IN  [arg |-> d, ret |-> d, same |-> TRUE]
  ELSE [arg |-> data, ret |-> data, same |-> TRUE]

\* arg: the object the caller passed, as it is after the call; ret: the value
\* returned; same: ret is the very object that was passed (not a copy of it)
_inject_trace(data, init, tr, t) ==
  IF data.t = "dict" /\ init
  THEN LET d == PyDict(DictSet(data.d, PyStr("_execution_trace"),
                               _get_trace_summary(tr, t)))
       IN  [arg |-> d, ret |-> d, same |-> TRUE]
  ELSE [arg |-> data, ret |-> data, same |-> TRUE]

\* _reset_tracer without the first line: the trace is deleted, the flag stays
_reset_tracer_TraceOnly(init, tr) == [init |-> init, tr |-> <<>>]

\* _reset_tracer without the del: only the flag is cleared
_reset_tracer_FlagOnly(init, tr) == [init |-> FALSE, tr |-> tr]

\* the instance's (_tracer_initialized, _execution_trace) after the call
_reset_tracer(init, tr) == [init |-> FALSE, tr |-> <<>>]

-----------------------------------------------------------------------------
(* The operations on one instance.                                         *)

\* total_steps of the summary of the trace tr (0 without a trace)
TotalSteps(tr, t) ==
  IF HasTrace(tr) THEN DictGet(_get_trace_summary(tr, t).d, PyStr("total_steps")).i
  ELSE 0

Init ==
  /\ receiver \in Receivers
  /\ _tracer_initialized = FALSE
  /\ _execution_trace = <<>>
  /\ stack = <<>>
  /\ outcome = NoOutcome
  /\ result = NoResult
  /\ now = 0
  /\ calls = 0
  /\ completed = 0
  /\ discarded = 0
  /\ threads = <<>>
  /\ contexts = <<>>
  /\ reset_at = 0

\* self._auto_init_tracer() called by user code
AutoInit ==
  /\ HasTracedAgent(receiver)
  /\ ~Pending
  /\ LET a == _auto_init_tracer(_tracer_initialized, _execution_trace, receiver, now)
     IN  /\ _tracer_initialized' = a.init
         /\ _execution_trace' = a.tr
  /\ outcome' = NoOutcome
  /\ result' = NoResult
  /\ UNCHANGED <<reset_at, receiver, stack, now, calls, completed, discarded, threads, contexts>>

\* a decorated method m is called (from outside, or from the body of the innermost
\* method in flight): the wrapper up to the call of func. When _extract_args
\* raises, the wrapper ends there and func is never called
Call(m, shape) ==
  /\ ~Pending
  /\ calls < MaxCalls
  /\ calls' = calls + 1
  /\ LET a == WrapperAutoInit(_tracer_initialized, _execution_trace, receiver, now)
         traced == HasTrace(a.tr)
         f == Frame(m, traced,
                    IF traced THEN Len(a.tr[1].steps) ELSE -1,
                    now, receiver, calls + 1)
     IN  /\ _tracer_initialized' = a.init
         /\ IF ~traced
            THEN /\ _execution_trace' = a.tr
                 /\ stack' = Append(stack, f)
                 /\ outcome' = NoOutcome
            ELSE IF m.capture_input
                    /\ _extract_args_raises(m.params, <<Self>> \o shape.args, shape.kwargs)
            THEN /\ _execution_trace' = a.tr
                 /\ stack' = stack
                 /\ outcome' = Outcome("raise", PyNone, Exc(UnprintableError, f.call),
                                       "not_invoked", PyNone, NoExc, f)
            ELSE /\ _execution_trace' = AppendStep(a.tr, StartedStep(f, shape.args, shape.kwargs))
                 /\ stack' = Append(stack, f)
                 /\ outcome' = NoOutcome
  /\ result' = NoResult
  /\ UNCHANGED <<reset_at, receiver, now, completed, discarded, threads, contexts>>

\* the innermost method in flight returns value: the rest of its wrapper
Return(value) ==
  /\ stack # <<>>
  /\ ~Pending
  /\ stack' = Pop
  /\ IF ~Top.traced
     THEN /\ outcome' = Outcome("return", value, NoExc, "return", value, NoExc, Top)
          /\ UNCHANGED <<_execution_trace, completed>>
     ELSE LET w == WrapperOnReturn(Top, value, _execution_trace, now)
          IN  /\ _execution_trace' = w.tr
              /\ outcome' = IF w.raises
                            THEN Outcome("raise", PyNone, w.exc, "return", value, NoExc, Top)
                            ELSE Outcome("return", value, NoExc, "return", value, NoExc, Top)
              /\ completed' = completed + 1
  /\ result' = NoResult
  /\ UNCHANGED <<reset_at, receiver, _tracer_initialized, now, calls, discarded, threads, contexts>>

\* the innermost method in flight ends by the exception exc: the rest of its wrapper
Unwind(exc) ==
  /\ stack' = Pop
  /\ IF ~Top.traced
     THEN /\ outcome' = Outcome("raise", PyNone, exc, "raise", PyNone, exc, Top)
          /\ UNCHANGED _execution_trace
     ELSE LET w == WrapperOnRaise(Top, exc, _execution_trace, now)
          IN  /\ _execution_trace' = w.tr
              /\ outcome' = Outcome("raise", PyNone, w.exc, "raise", PyNone, exc, Top)
  /\ result' = NoResult
  /\ UNCHANGED <<reset_at, receiver, _tracer_initialized, now, calls, completed, discarded,
                 threads, contexts>>

\* the innermost method in flight raises a new exception
Raise(e) ==
  /\ stack # <<>>
  /\ ~Pending
  /\ Unwind(Exc(e, Top.call))

\* the innermost method in flight does not catch the exception of the call it made
Propagate ==
  /\ Pending
  /\ Unwind(outcome.exc)

\* the innermost method in flight catches the exception of the call it made
Catch ==
  /\ Pending
  /\ outcome' = NoOutcome
  /\ result' = NoResult
  /\ UNCHANGED <<reset_at, receiver, _tracer_initialized, _execution_trace, stack, now, calls,
                 completed, discarded, threads, contexts>>

\* self._get_trace_summary()
Summary ==
  /\ HasTracedAgent(receiver)
  /\ ~Pending
  /\ result' = [op |-> "summary", at |-> now,
                ret |-> _get_trace_summary(_execution_trace, now)]
  /\ outcome' = NoOutcome
  /\ UNCHANGED <<reset_at, receiver, _tracer_initialized, _execution_trace, stack, now, calls,
                 completed, discarded, threads, contexts>>

\* self._inject_trace(data)
Inject(data) ==
  /\ HasTracedAgent(receiver)
  /\ ~Pending
  /\ result' = [op |-> "inject", at |-> now, data |-> data]
                 @@ _inject_trace(data, _tracer_initialized, _execution_trace, now)
  /\ outcome' = NoOutcome
  /\ UNCHANGED <<reset_at, receiver, _tracer_initialized, _execution_trace, stack, now, calls,
                 completed, discarded, threads, contexts>>

\* self._reset_tracer() between two executions (no decorated method in flight)
Reset ==
  /\ HasTracedAgent(receiver)
  /\ stack = <<>>
  /\ LET a == _reset_tracer(_tracer_initialized, _execution_trace)
     IN  /\ _tracer_initialized' = a.init
         /\ _execution_trace' = a.tr
  /\ completed' = 0
  /\ discarded' = TotalSteps(_execution_trace, now)
  /\ outcome' = NoOutcome
  /\ result' = [op |-> "reset"]
  /\ UNCHANGED <<reset_at, receiver, stack, now, calls, threads, contexts>>

\* time passes
Tick ==
  /\ now + ClockStep \in Instants
  /\ now' = now + ClockStep
  /\ UNCHANGED <<reset_at, receiver, _tracer_initialized, _execution_trace, stack, outcome,
                 result, calls, completed, discarded, threads, contexts>>

Next ==
  \/ AutoInit
  \/ \E m \in Methods : \E shape \in CallShapes(m) : Call(m, shape)
  \/ \E value \in ReturnValues : Return(value)
  \/ \E e \in Raisable : Raise(e)
  \/ Propagate
  \/ Catch
  \/ Summary
  \/ \E data \in InjectInputs : Inject(data)
  \/ Reset
  \/ Tick

Spec == Init /\ [][Next]_vars

-----------------------------------------------------------------------------
(* The entry points: Tool.__new__, PreProcessor.__new__ and                *)
(* Rule._wrap_execute_result, run on the instance once the user's code     *)
(* (which may have called decorated methods) has ended.                    *)

\* what the user's execute returns to Tool.__new__: (data, format)
ExecuteResults ==
  { <<PyDict(<<<<PyStr("processed"), PyBool(TRUE)>>>>), PyDict(<<>>)>>,
    <<PyInt(42), PyNone>> }

\* what the user's process returns to PreProcessor.__new__: a ProcessedData
ProcessResults == {PyObject("ProcessedData")}

\* what the user's rule logic hands to Rule._wrap_execute_result
RuleResults == {PyBool(TRUE), PyBool(FALSE)}

FormatError ==
  [type |-> "TypeError",
   msg |-> "Execute method must return a dictionary, got <class 'NoneType'>"]

\* Tool.__new__ from line 45 on, execute having returned (data, format): ordinary
\* is the result of an instance without tracing, element by element
Tool__new__(data, format) ==
  IF format.t # "dict"
  THEN [raises |-> TRUE, exc |-> FormatError, ordinary |-> <<>>, ret |-> PyNone]
  ELSE [raises |-> FALSE, exc |-> NoExc, ordinary |-> <<data, format>>,
        ret |-> PyTuple(<<data, format>>)]

\* PreProcessor.__new__ at line 35, process having returned processed
PreProcessor__new__(processed) ==
  [raises |-> FALSE, exc |-> NoExc, ordinary |-> <<processed>>, ret |-> processed]

\* _wrap_execute_result handing out no traces at all
_wrap_execute_result_NoTraces(rule_result, cls, init, tr, t) ==
  PyTuple(<<rule_result, PyDict(<<>>)>>)

\* Rule._wrap_execute_result(result): hasattr(self, "_get_trace_summary") and
\* hasattr(self, "_tracer_initialized") hold of the classes with TracedAgent
_wrap_execute_result(rule_result, cls, init, tr, t) ==
  IF HasTracedAgent(cls) /\ init
  THEN PyTuple(<<rule_result, _get_trace_summary(tr, t)>>)
  ELSE PyTuple(<<rule_result, PyDict(<<>>)>>)

\* Tool.__new__ ends: the user's execute has returned r
NewTool(r) ==
  /\ stack = <<>>
  /\ result' = [op |-> "Tool", at |-> now] @@ Tool__new__(r[1], r[2])
  /\ outcome' = NoOutcome
  /\ UNCHANGED <<reset_at, receiver, _tracer_initialized, _execution_trace, stack, now, calls,
                 completed, discarded, threads, contexts>>

\* PreProcessor.__new__ ends: the user's process has returned processed
NewPreProcessor(processed) ==
  /\ stack = <<>>
  /\ result' = [op |-> "PreProcessor", at |-> now] @@ PreProcessor__new__(processed)
  /\ outcome' = NoOutcome
  /\ UNCHANGED <<reset_at, receiver, _tracer_initialized, _execution_trace, stack, now, calls,
                 completed, discarded, threads, contexts>>

\* self._wrap_execute_result(rule_result), called by the user's execute
WrapExecuteResult(rule_result) ==
  /\ stack = <<>>
  /\ result' = [op |-> "wrap", at |-> now, arg |-> rule_result,
                ret |-> _wrap_execute_result(rule_result, receiver, _tracer_initialized,
                                             _execution_trace, now)]
  /\ outcome' = NoOutcome
  /\ UNCHANGED <<reset_at, receiver, _tracer_initialized, _execution_trace, stack, now, calls,
                 completed, discarded, threads, contexts>>

\* the instances of the entry points: the user's code calls decorated methods,
\* resets the tracer between executions, and the entry point ends
NextEntry ==
  \/ \E m \in Methods : \E shape \in CallShapes(m) : Call(m, shape)
  \/ \E value \in ReturnValues : Return(value)
  \/ \E e \in Raisable : Raise(e)
  \/ Propagate
  \/ Catch
  \/ Reset
  \/ Tick
  \/ \E r \in ExecuteResults : NewTool(r)
  \/ \E processed \in ProcessResults : NewPreProcessor(processed)
  \/ \E rule_result \in RuleResults : WrapExecuteResult(rule_result)

SpecEntry == Init /\ [][NextEntry]_vars

-----------------------------------------------------------------------------
(* _serialize_value called on its own, on values nested up to MaxNest      *)
(* containers deep and on sequences around and beyond the 50-item limit.   *)

MaxNest == 4

\* a max_length shorter than the texts explored
ShortLength == 2

\* the length of the long sequences of the tests
LongLen == 100

\* a set: no __dict__, str(value) is its text
PySet123 == PyOther("{1, 2, 3}", TRUE)

Leaves == {PyNone, PyInt(7), PyStr("abcdef"), PyObject("Context"), PySet123, Unprintable}

\* the values with up to n containers around a leaf
RECURSIVE NestedValues(_)
NestedValues(n) ==
  IF n = 0 THEN Leaves
  ELSE LET inner == NestedValues(n - 1)
       IN  Leaves
           \cup { PyList(<<PyInt(1), v>>) : v \in inner }
           \cup { PyTuple(<<v>>) : v \in inner }
           \cup { PyDict(<<<<PyStr("k"), v>>>>) : v \in inner }

SequenceLens == {0, 1, MaxItems - 1, MaxItems, MaxItems + 1, LongLen}

\* list(range(n)), tuple(range(n)), a list of n one-item lists; a dict of 50 and
\* of 51 keys, and a list of 51 items inside a list
LongSequences ==
  { PyList([i \in 1..n |-> PyInt(i - 1)]) : n \in SequenceLens }
  \cup { PyTuple([i \in 1..n |-> PyInt(i - 1)]) : n \in SequenceLens }
  \cup { PyList([i \in 1..n |-> PyList(<<PyInt(i - 1)>>)]) : n \in SequenceLens }
  \cup { PyDict([i \in 1..n |-> <<PyStr("key_" \o ToString(i - 1)), PyInt(i - 1)>>]) :
            n \in {MaxItems, MaxItems + 1} }
  \cup { PyList(<<PyList([i \in 1..(MaxItems + 1) |-> PyInt(i - 1)])>>) }

\* dicts whose keys are not strings: {1: "a"}, {(1, 2): [7]}, and the first inside
\* a list
KeyedDicts ==
  { PyDict(<<<<PyInt(1), PyStr("a")>>>>),
    PyDict(<<<<PyTuple(<<PyInt(1), PyInt(2)>>), PyList(<<PyInt(7)>>)>>>>),
    PyList(<<PyDict(<<<<PyInt(1), PyStr("a")>>>>)>>) }

SerializeValues == NestedValues(MaxNest) \cup LongSequences \cup KeyedDicts

SerializeDepths == -1 .. (DefaultMaxDepth + 1)

SerializeLengths == {ShortLength, DefaultMaxLength}

InitSerialize ==
  /\ receiver = "TracedTool"
  /\ _tracer_initialized = FALSE
  /\ _execution_trace = <<>>
  /\ stack = <<>>
  /\ outcome = NoOutcome
  /\ result \in { [op |-> "serialize_args", value |-> v, max_depth |-> d,
                    max_length |-> l] :
                     v \in SerializeValues, d \in SerializeDepths,
                     l \in SerializeLengths }
  /\ now = 0
  /\ calls = 0
  /\ completed = 0
  /\ discarded = 0
  /\ threads = <<>>
  /\ contexts = <<>>
  /\ reset_at = 0

\* _serialize_value(value, max_depth, max_length) runs on the arguments chosen
Serialize ==
  /\ result.op = "serialize_args"
  /\ LET raises == _serialize_value_raises(result.value, result.max_depth)
     IN  result' = [op |-> "serialize", value |-> result.value,
                    max_depth |-> result.max_depth, max_length |-> result.max_length,
                    raises |-> raises,
                    ret |-> IF raises THEN PyNone
                            ELSE _serialize_value(result.value, result.max_depth,
                                                  result.max_length)]
  /\ UNCHANGED <<reset_at, receiver, _tracer_initialized, _execution_trace, stack, outcome, now,
                 calls, completed, discarded, threads, contexts>>

NextSerialize == Serialize

SpecSerialize == InitSerialize /\ [][NextSerialize]_vars

-----------------------------------------------------------------------------
(* _extract_args called on its own: one method, one value per declared     *)
(* parameter, and up to MaxExtracts calls that pass these values in        *)
(* different ways (a positional prefix, keywords in any order, the rest    *)
(* left to the defaults).                                                  *)

MaxExtracts == 2

\* def test_func(self, arg1, arg2=10), def class_method(cls, arg1, arg2=10),
\* def test_func(self, arg1, arg2=10, arg3="default"), and a method that names
\* its receiver otherwise: def handle(this, arg1)
ExtractSignatures ==
  { <<"self", "arg1", "arg2">>, <<"cls", "arg1", "arg2">>,
    <<"self", "arg1", "arg2", "arg3">>, <<"this", "arg1">> }

ExtractValues == {PyStr("test"), PyTuple(<<PyInt(20)>>), Unprintable}

\* the sequences that list each element of S once
RECURSIVE Orderings(_)
Orderings(S) ==
  IF S = {} THEN {<<>>}
  ELSE UNION { { <<x>> \o o : o \in Orderings(S \ {x}) } : x \in S }

\* the ways to call a method of signature params: the first npos parameters after
\* the receiver are passed positionally, those of kwnames by keyword in that order
ExtractShapes(params) ==
  UNION { { [npos |-> k, kwnames |-> o] :
              o \in UNION { Orderings(T) :
                             T \in SUBSET {params[i] : i \in (k + 2)..Len(params)} } } :
          k \in 0..(Len(params) - 1) }

\* the value passed for the parameter called name
ValueFor(params, values, name) ==
  values[(CHOOSE i \in 2..Len(params) : params[i] = name) - 1]

\* (self,) + args and kwargs of the call of shape sh
ShapeArgs(values, sh) == <<Self>> \o [i \in 1..sh.npos |-> values[i]]

ShapeKwargs(params, values, sh) ==
  [j \in 1..Len(sh.kwnames) |-> <<sh.kwnames[j], ValueFor(params, values, sh.kwnames[j])>>]

InitExtract ==
  /\ receiver = "TracedTool"
  /\ _tracer_initialized = FALSE
  /\ _execution_trace = <<>>
  /\ stack = <<>>
  /\ outcome = NoOutcome
  /\ result \in UNION { { [op |-> "extract", params |-> ps, values |-> vs, done |-> {}] :
                            vs \in [1..(Len(ps) - 1) -> ExtractValues] } :
                          ps \in ExtractSignatures }
  /\ now = 0
  /\ calls = 0
  /\ completed = 0
  /\ discarded = 0
  /\ threads = <<>>
  /\ contexts = <<>>
  /\ reset_at = 0

\* _extract_args(func, (self,) + args, kwargs) runs on a call of shape sh
ExtractArgs(sh) ==
  /\ result.op = "extract"
  /\ Cardinality(result.done) < MaxExtracts
  /\ sh \notin {[npos |-> r.npos, kwnames |-> r.kwnames] : r \in result.done}
  /\ LET args == ShapeArgs(result.values, sh)
         kwargs == ShapeKwargs(result.params, result.values, sh)
         raises == _extract_args_raises(result.params, args, kwargs)
     IN  result' = [result EXCEPT !.done = @ \cup
                      { [npos |-> sh.npos, kwnames |-> sh.kwnames, raises |-> raises,
                         ret |-> IF raises THEN PyNone
                                 ELSE _extract_args(result.params, args, kwargs)] }]
  /\ UNCHANGED <<reset_at, receiver, _tracer_initialized, _execution_trace, stack, outcome, now,
                 calls, completed, discarded, threads, contexts>>

NextExtract == \E sh \in ExtractShapes(result.params) : ExtractArgs(sh)

SpecExtract == InitExtract /\ [][NextExtract]_vars

-----------------------------------------------------------------------------
(* The decorator's two flags: decorated methods of every combination of    *)
(* capture_input and capture_output, called, nested, returning and         *)
(* raising on one instance.                                                *)

\* beside the two of Methods:
\* @trace(capture_input=False) def _lookup(self, user_id)
\* @trace(capture_output=False) def _sign(self, payload)
CaptureMethods ==
  Methods \cup
  { [name |-> "_lookup", params |-> <<"self", "user_id">>,
     capture_input |-> FALSE, capture_output |-> TRUE],
    [name |-> "_sign", params |-> <<"self", "payload">>,
     capture_input |-> TRUE, capture_output |-> FALSE] }

NextCapture ==
  \/ \E m \in CaptureMethods : \E shape \in CallShapes(m) : Call(m, shape)
  \/ \E value \in ReturnValues : Return(value)
  \/ \E e \in Raisable : Raise(e)
  \/ Propagate
  \/ Catch

SpecCapture == Init /\ [][NextCapture]_vars

-----------------------------------------------------------------------------
(* Two threads call decorated methods on the one instance. The wrapper     *)
(* takes no lock, so a thread switch can fall between any two of its       *)
(* statements that touch the instance: the test of the flag and the two    *)
(* assignments of _auto_init_tracer, the reading of len(steps), the append *)
(* of the STARTED step, and the append of the terminal step.               *)

NThreads == 2

\* the one way the threads call a method: m(1)
ThreadArgs == <<PyInt(1)>>

\* what the body of a method does in a thread: it returns {"ok": 1} or raises
\* ValueError("boom")
ThreadReturnValue == PyDict(<<<<PyStr("ok"), PyInt(1)>>>>)

ThreadRaised == [type |-> "ValueError", msg |-> "boom"]

\* a thread outside the wrapper; overlapped is history: the thread has been in the
\* wrapper while another thread was
IdleThread == [pc |-> "idle", f |-> <<>>, overlapped |-> FALSE]

\* line 180: step_index = len(self._execution_trace.steps), always 0
NextStepIndex_Zero(tr) == 0

\* line 180: step_index = len(self._execution_trace.steps)
NextStepIndex(tr) == Len(tr[1].steps)

InitThreads ==
  /\ receiver = "TracedTool"
  /\ _tracer_initialized = FALSE
  /\ _execution_trace = <<>>
  /\ stack = <<>>
  /\ outcome = NoOutcome
  /\ result = NoResult
  /\ now = 0
  /\ calls = 0
  /\ completed = 0
  /\ discarded = 0
  /\ threads = [t \in 1..NThreads |-> IdleThread]
  /\ contexts = <<>>
  /\ reset_at = 0

\* thread t calls the decorated method m: the wrapper starts (line 169)
ThreadCall(t, m) ==
  /\ threads[t].pc = "idle"
  /\ calls < MaxCalls
  /\ calls' = calls + 1
  /\ LET meets == \E u \in 1..NThreads : u # t /\ threads[u].pc # "idle"
     IN  threads' = [u \in 1..NThreads |->
                      IF u = t
                      THEN [pc |-> "test_flag",
                            f |-> Frame(m, TRUE, -1, now, receiver, calls + 1),
                            overlapped |-> threads[t].overlapped \/ meets]
                      ELSE [threads[u] EXCEPT
                              !.overlapped = @ \/ threads[u].pc # "idle"]]
  /\ UNCHANGED <<reset_at, receiver, _tracer_initialized, _execution_trace, stack, outcome,
                 result, now, completed, discarded, contexts>>

\* lines 171-172 and 300: the hook is called and tests the flag
ThreadTestFlag(t) ==
  /\ threads[t].pc = "test_flag"
  /\ threads' = [threads EXCEPT ![t].pc = IF ~_tracer_initialized THEN "create_trace"
                                          ELSE "read_index"]
  /\ UNCHANGED <<reset_at, receiver, _tracer_initialized, _execution_trace, stack, outcome,
                 result, now, calls, completed, discarded, contexts>>

\* lines 301-306: self._execution_trace = ExecutionTrace(...)
ThreadCreateTrace(t) ==
  /\ threads[t].pc = "create_trace"
  /\ _execution_trace' = <<ExecutionTrace(AgentName(receiver), IsoZ(now), "running")>>
  /\ threads' = [threads EXCEPT ![t].pc = "set_flag"]
  /\ UNCHANGED <<reset_at, receiver, _tracer_initialized, stack, outcome, result, now, calls,
                 completed, discarded, contexts>>

\* line 307: self._tracer_initialized = True
ThreadSetFlag(t) ==
  /\ threads[t].pc = "set_flag"
  /\ _tracer_initialized' = TRUE
  /\ threads' = [threads EXCEPT ![t].pc = "read_index"]
  /\ UNCHANGED <<reset_at, receiver, _execution_trace, stack, outcome, result, now, calls,
                 completed, discarded, contexts>>

\* lines 174-180: the instance has a trace; step_index = len(steps)
ThreadReadIndex(t) ==
  /\ threads[t].pc = "read_index"
  /\ threads' = [threads EXCEPT ![t].pc = "append_started",
                                ![t].f.step_index = NextStepIndex(_execution_trace)]
  /\ UNCHANGED <<reset_at, receiver, _tracer_initialized, _execution_trace, stack, outcome,
                 result, now, calls, completed, discarded, contexts>>

\* lines 182-194: the STARTED step is appended, then func is called
ThreadAppendStarted(t) ==
  /\ threads[t].pc = "append_started"
  /\ _execution_trace' = AppendStep(_execution_trace,
                                    StartedStep(threads[t].f, ThreadArgs, <<>>))
  /\ threads' = [threads EXCEPT ![t].pc = "func"]
  /\ UNCHANGED <<reset_at, receiver, _tracer_initialized, stack, outcome, result, now, calls,
                 completed, discarded, contexts>>

\* lines 197-213: func returns, the COMPLETED step is appended
ThreadReturn(t) ==
  /\ threads[t].pc = "func"
  /\ _execution_trace' = WrapperOnReturn(threads[t].f, ThreadReturnValue,
                                         _execution_trace, now).tr
  /\ threads' = [threads EXCEPT ![t].pc = "idle"]
  /\ UNCHANGED <<reset_at, receiver, _tracer_initialized, stack, outcome, result, now, calls,
                 completed, discarded, contexts>>

\* lines 215-232: func raises, the FAILED step is appended
ThreadRaise(t) ==
  /\ threads[t].pc = "func"
  /\ _execution_trace' = WrapperOnRaise(threads[t].f,
                                        Exc(ThreadRaised, threads[t].f.call),
                                        _execution_trace, now).tr
  /\ threads' = [threads EXCEPT ![t].pc = "idle"]
  /\ UNCHANGED <<reset_at, receiver, _tracer_initialized, stack, outcome, result, now, calls,
                 completed, discarded, contexts>>

NextThreads ==
  \E t \in 1..NThreads :
    \/ \E m \in Methods : ThreadCall(t, m)
    \/ ThreadTestFlag(t)
    \/ ThreadCreateTrace(t)
    \/ ThreadSetFlag(t)
    \/ ThreadReadIndex(t)
    \/ ThreadAppendStarted(t)
    \/ ThreadReturn(t)
    \/ ThreadRaise(t)

SpecThreads == InitThreads /\ [][NextThreads]_vars

-----------------------------------------------------------------------------
(* weni.broadcasts.broadcast: BroadcastEvent and its context variable      *)
(* _pending_messages_var. A thread's context is a record: var is what the  *)
(* variable holds in it (0: nothing set, so that get() gives the default   *)
(* None; n: the list object lists[n]), lists are the list objects alive,   *)
(* oldest first, and tokens are the tokens of the scopes entered and not   *)
(* yet left, innermost last. A token remembers what the variable held      *)
(* before the set; its fields before and inside are history (the pending   *)
(* messages at entry, the messages registered since).                      *)

\* scopes nested in one thread, and messages registered by all threads together
MaxScopes == 2
MaxMessages == 2

\* the main thread and a worker thread: a thread starts with an empty context
Contexts == {"main", "worker"}

EmptyContext == [var |-> 0, lists |-> <<>>, tokens |-> <<>>, count |-> 0]

\* Text(text=...).format_message(): the n-th message of thread c
Payload(c, n) == [text |-> <<c, n>>]

\* BroadcastEvent._get_messages: the context after the call (var refers to the
\* list returned)
_get_messages(ctx) ==
  IF ctx.var = 0
  THEN [ctx EXCEPT !.lists = Append(@, <<>>), !.var = Len(ctx.lists) + 1]
  ELSE ctx

\* BroadcastEvent.register(message): the context after the call
register(ctx, payload) ==
  LET c == _get_messages(ctx)
  IN  [c EXCEPT !.lists[c.var] = Append(@, payload),
                !.tokens = [k \in 1..Len(c.tokens) |->
                              [c.tokens[k] EXCEPT !.inside = @ \cup {payload}]],
                !.count = @ + 1]

\* BroadcastEvent.get_pending(): ctx is the context after the call, ret the copy
\* returned
get_pending(ctx) ==
  LET c == _get_messages(ctx)
  IN  [ctx |-> c, ret |-> c.lists[c.var]]

\* BroadcastEvent.pop_pending()
pop_pending(ctx) ==
  LET c == _get_messages(ctx)
  IN  [ctx |-> [c EXCEPT !.lists[c.var] = <<>>], ret |-> c.lists[c.var]]

\* what get_pending() would return in ctx (the call itself not made)
PendingIn(ctx) == get_pending(ctx).ret

\* line 124: token = _pending_messages_var.set([])
scope_enter(ctx) ==
  [ctx EXCEPT !.lists = Append(@, <<>>),
              !.var = Len(ctx.lists) + 1,
              !.tokens = Append(@, [old |-> ctx.var, before |-> PendingIn(ctx),
                                    inside |-> {}])]

\* the end of scope without the reset: the variable keeps the list of the scope
scope_exit_NoReset(ctx) ==
  [ctx EXCEPT !.tokens = SubSeq(@, 1, Len(@) - 1)]

\* lines 127-130: the finally clause, _pending_messages_var.reset(token); the list
\* of the scope, which nothing refers to any more, is gone
scope_exit(ctx) ==
  [ctx EXCEPT !.var = ctx.tokens[Len(ctx.tokens)].old,
              !.lists = SubSeq(@, 1, ctx.var - 1),
              !.tokens = SubSeq(@, 1, Len(@) - 1)]

InitBroadcast ==
  /\ receiver = "PlainTool"
  /\ _tracer_initialized = FALSE
  /\ _execution_trace = <<>>
  /\ stack = <<>>
  /\ outcome = NoOutcome
  /\ result = NoResult
  /\ now = 0
  /\ calls = 0
  /\ completed = 0
  /\ discarded = 0
  /\ threads = <<>>
  /\ contexts = [c \in Contexts |-> EmptyContext]
  /\ reset_at = 0

\* the number of messages the threads of S have registered
RECURSIVE Registered(_)
Registered(S) ==
  IF S = {} THEN 0
  ELSE LET c == CHOOSE x \in S : TRUE
       IN  contexts[c].count + Registered(S \ {c})

\* thread c: BroadcastEvent.register(Text(...))
Register(c) ==
  /\ Registered(Contexts) < MaxMessages
  /\ contexts' = [contexts EXCEPT ![c] = register(@, Payload(c, @.count + 1))]
  /\ result' = [op |-> "register", ctx |-> c]
  /\ UNCHANGED <<reset_at, receiver, _tracer_initialized, _execution_trace, stack, outcome, now,
                 calls, completed, discarded, threads>>

\* thread c: BroadcastEvent.get_pending()
GetPending(c) ==
  /\ LET a == get_pending(contexts[c])
     IN  /\ contexts' = [contexts EXCEPT ![c] = a.ctx]
         /\ result' = [op |-> "get_pending", ctx |-> c, ret |-> a.ret]
  /\ UNCHANGED <<reset_at, receiver, _tracer_initialized, _execution_trace, stack, outcome, now,
                 calls, completed, discarded, threads>>

\* thread c: BroadcastEvent.pop_pending()
PopPending(c) ==
  /\ LET a == pop_pending(contexts[c])
     IN  /\ contexts' = [contexts EXCEPT ![c] = a.ctx]
         /\ result' = [op |-> "pop_pending", ctx |-> c, ret |-> a.ret]
  /\ UNCHANGED <<reset_at, receiver, _tracer_initialized, _execution_trace, stack, outcome, now,
                 calls, completed, discarded, threads>>

\* thread c enters `with BroadcastEvent.scope():`
EnterScope(c) ==
  /\ Len(contexts[c].tokens) < MaxScopes
  /\ contexts' = [contexts EXCEPT ![c] = scope_enter(@)]
  /\ result' = [op |-> "scope_enter", ctx |-> c]
  /\ UNCHANGED <<reset_at, receiver, _tracer_initialized, _execution_trace, stack, outcome, now,
                 calls, completed, discarded, threads>>

\* thread c leaves its innermost scope, by the end of the block or by an
\* exception raised in it: the finally clause runs either way
ExitScope(c, raised) ==
  /\ contexts[c].tokens # <<>>
  /\ contexts' = [contexts EXCEPT ![c] = scope_exit(@)]
  /\ result' = [op |-> "scope_exit", ctx |-> c, raised |-> raised,
                token |-> contexts[c].tokens[Len(contexts[c].tokens)],
                seen |-> PendingIn(contexts[c])]
  /\ UNCHANGED <<reset_at, receiver, _tracer_initialized, _execution_trace, stack, outcome, now,
                 calls, completed, discarded, threads>>

NextBroadcast ==
  \E c \in Contexts :
    \/ Register(c)
    \/ GetPending(c)
    \/ PopPending(c)
    \/ EnterScope(c)
    \/ \E raised \in BOOLEAN : ExitScope(c, raised)

SpecBroadcast == InitBroadcast /\ [][NextBroadcast]_vars

-----------------------------------------------------------------------------
(* _reset_tracer called from the body of a decorated method: the wrapper   *)
(* activations in flight go on with the step_index they read before the    *)
(* reset, and use whatever self._execution_trace is when they end.         *)

\* self._reset_tracer() called by the body of the innermost decorated method in
\* flight
ResetInFlight ==
  /\ HasTracedAgent(receiver)
  /\ stack # <<>>
  /\ ~Pending
  /\ LET a == _reset_tracer(_tracer_initialized, _execution_trace)
     IN  /\ _tracer_initialized' = a.init
         /\ _execution_trace' = a.tr
  /\ reset_at' = calls
  /\ completed' = 0
  /\ discarded' = TotalSteps(_execution_trace, now)
  /\ outcome' = NoOutcome
  /\ result' = [op |-> "reset"]
  /\ UNCHANGED <<receiver, stack, now, calls, threads, contexts>>

NextReset ==
  \/ \E m \in Methods : \E shape \in CallShapes(m) : Call(m, shape)
  \/ \E value \in ReturnValues : Return(value)
  \/ \E e \in Raisable : Raise(e)
  \/ Propagate
  \/ Catch
  \/ ResetInFlight

SpecReset == Init /\ [][NextReset]_vars

-----------------------------------------------------------------------------
(* Properties.                                                             *)

\* the step list of the instance's trace (empty without a trace)
Steps == IF HasTrace(_execution_trace) THEN _execution_trace[1].steps ELSE <<>>

Terminal(step) == step.status \in {"completed", "failed"}

StartedAt(i) == {k \in 1..Len(Steps) : Steps[k].step_index = i /\ Steps[k].status = "started"}

TerminalAt(i) == {k \in 1..Len(Steps) : Steps[k].step_index = i /\ Terminal(Steps[k])}

Indices == {Steps[k].step_index : k \in 1..Len(Steps)}

HasFailedStep == \E k \in 1..Len(Steps) : Steps[k].status = "failed"

\* a wrapper activation on a traced instance has just ended
TracedExit == outcome.kind # "none" /\ outcome.traced

LastStep == Steps[Len(Steps)]

\* the steps array of the summary of the current trace
SummarySteps == DictGet(_get_trace_summary(_execution_trace, now).d, PyStr("steps")).l

\* C1: once every call has returned or raised, each step_index of the step list
\* is on exactly one STARTED step and on exactly one terminal step, the terminal
\* step after the STARTED one; and at no time is an index on two STARTED steps.
C1_IndexPairsUp ==
  /\ \A i \in Indices : Cardinality(StartedAt(i)) <= 1
  /\ stack = <<>> =>
       \A i \in Indices :
         /\ Cardinality(StartedAt(i)) = 1
         /\ Cardinality(TerminalAt(i)) = 1
         /\ \A s \in StartedAt(i) : \A e \in TerminalAt(i) : s < e

\* C2: when a decorated method called on an instance with an active trace has
\* returned or raised, the last step of the trace is a terminal step with the
\* call's step_index; once no call is in flight no STARTED step lacks its terminal
\* step.
C2_TerminalStepOnEveryExit ==
  /\ (TracedExit /\ outcome.mkind \in {"return", "raise"}) =>
       /\ Len(Steps) > 0
       /\ Terminal(LastStep)
       /\ LastStep.step_index = outcome.step_index
  /\ stack = <<>> => \A i \in Indices : StartedAt(i) # {} => TerminalAt(i) # {}

\* C3: when a decorated method raises E with message m on an instance with an
\* active trace, the wrapper appends a FAILED step with error "<type of E>: m",
\* sets the trace status to "failed" and re-raises E itself.
C3_RaiseRecordedAndReraised ==
  (TracedExit /\ outcome.mkind = "raise") =>
    /\ Len(Steps) > 0
    /\ LastStep.status = "failed"
    /\ LastStep.step_index = outcome.step_index
    /\ LastStep.error = PyStr(outcome.mexc.type \o ": " \o outcome.mexc.msg)
    /\ _execution_trace[1].status = "failed"
    /\ outcome.kind = "raise"
    /\ outcome.exc = outcome.mexc

\* the position in the summary of the entry of step index i
SummaryPos(i) == Cardinality({j \in Indices : j <= i /\ TerminalAt(j) # {}})

\* C4: when a decorated method returns normally on an instance with an active
\* trace, the wrapper returns the method's value unchanged and the summary built
\* afterwards has exactly one step for the call, with status "ok" and
\* duration_ms >= 0.
C4_ReturnPassedAndSummarised ==
  (TracedExit /\ outcome.mkind = "return") =>
    /\ outcome.kind = "return"
    /\ outcome.val = outcome.mval
    /\ Cardinality(TerminalAt(outcome.step_index)) = 1
    /\ SummaryPos(outcome.step_index) \in 1..Len(SummarySteps)
    /\ LET entry == SummarySteps[SummaryPos(outcome.step_index)].d
           d == DictGet(entry, PyStr("duration_ms"))
       IN  /\ DictGet(entry, PyStr("status")) = PyStr("ok")
           /\ DictGet(entry, PyStr("method")) = PyStr(outcome.method)
           /\ IF d.t = "float" THEN d.us >= 0 ELSE d.i >= 0

\* C5: on an instance without tracing (no _auto_init_tracer, or one that creates
\* no _execution_trace) the wrapper ends as the method does, with the same value
\* or the same exception, and the instance gets no trace, flag, step or summary.
C5_TransparentWithoutTracing ==
  ~HasTracedAgent(receiver) =>
    /\ ~HasTrace(_execution_trace)
    /\ ~_tracer_initialized
    /\ result = NoResult
    /\ \A k \in 1..Len(stack) : ~stack[k].traced
    /\ outcome.kind # "none" =>
         /\ ~outcome.traced
         /\ outcome.kind = outcome.mkind
         /\ outcome.val = outcome.mval
         /\ outcome.exc = outcome.mexc

C5_Witness ==
  /\ receiver = "HookOnlyTool"
  /\ outcome.kind = "return"
  /\ outcome.val = PyDict(<<<<PyStr("ok"), PyInt(1)>>>>)
  /\ outcome.method = "execute"

\* the first FAILED step of the step list
FirstFailedStep ==
  Steps[CHOOSE k \in 1..Len(Steps) :
          /\ Steps[k].status = "failed"
          /\ \A j \in 1..(k - 1) : Steps[j].status # "failed"]

\* every FAILED step of the trace records an exception raised by a method body
OnlyMethodFailures ==
  \A k \in 1..Len(Steps) :
    Steps[k].status = "failed" => Steps[k].error # PyStr(ErrorMsg(UnprintableError))

\* C6: within one trace lifetime error_summary is set by the first failing call
\* and never overwritten: whatever calls failed later, it is the error string of
\* the first FAILED step.
C6_FirstFailureWins ==
  (HasTrace(_execution_trace) /\ HasFailedStep /\ OnlyMethodFailures) =>
    _execution_trace[1].error_summary = FirstFailedStep.error

\* C7: in every state of a trace, error_summary is not None exactly when the step
\* list holds a FAILED step, and the trace status is "failed" exactly then.
C7_ErrorSummaryIffFailedStep ==
  HasTrace(_execution_trace) =>
    /\ (_execution_trace[1].error_summary # PyNone) <=> HasFailedStep
    /\ (_execution_trace[1].status = "failed") <=> HasFailedStep
    /\ _execution_trace[1].status \in {"running", "failed"}

C7_Witness ==
  /\ HasTrace(_execution_trace)
  /\ HasFailedStep
  /\ _execution_trace[1].error_summary = PyStr("ValueError: boom")
  /\ \E k \in 1..Len(Steps) : Steps[k].status = "completed"

\* C8: the tracing engine never raises on its own: a wrapper activation ends by an
\* exception only when its method raised that exception, and when the method
\* returned the wrapper returns its value and the trace ends with a COMPLETED step
\* (also when the serialization of the inputs or of the value fails).
C8_EngineNeverRaises ==
  TracedExit =>
    /\ outcome.kind = "raise" => (outcome.mkind = "raise" /\ outcome.exc = outcome.mexc)
    /\ outcome.mkind = "return" =>
         /\ outcome.kind = "return"
         /\ outcome.val = outcome.mval
         /\ LastStep.status = "completed"
         /\ LastStep.step_index = outcome.step_index

\* an _inject_trace call has just ended that got a dict on an initialized tracer
InjectedIntoDict ==
  result.op = "inject" /\ result.data.t = "dict" /\ _tracer_initialized

HasKey(v, key) == v.t = "dict" /\ DictHas(v.d, PyStr(key))

\* C9: _inject_trace(data) with a dict and an initialized trace returns a copy of
\* data with the key "_execution_trace" holding the summary, and the dict that was
\* passed is left as it was.
C9_InjectReturnsCopy ==
  InjectedIntoDict =>
    /\ HasKey(result.ret, "_execution_trace")
    /\ DictGet(result.ret.d, PyStr("_execution_trace"))
         = _get_trace_summary(_execution_trace, result.at)
    /\ ~result.same
    /\ result.arg = result.data

\* C9 as amended: _inject_trace(data) with a dict and an initialized trace stores
\* the summary under "_execution_trace" in the dict that was passed, keeps its
\* other entries, and returns that same dict.
C9_InjectInPlace ==
  InjectedIntoDict =>
    /\ result.same
    /\ result.ret = result.arg
    /\ HasKey(result.arg, "_execution_trace")
    /\ DictGet(result.arg.d, PyStr("_execution_trace"))
         = _get_trace_summary(_execution_trace, result.at)
    /\ Len(result.arg.d) = Len(result.data.d) + 1
    /\ \A i \in 1..Len(result.data.d) : result.arg.d[i] = result.data.d[i]

C9_Witness ==
  /\ InjectedIntoDict
  /\ Len(Steps) = 2
  /\ Steps[2].status = "completed"

\* C10: _inject_trace(data) returns data itself, unchanged and without the key
\* "_execution_trace", when data is no dict or the tracer is not initialized; the
\* call leaves the trace and the flag as they were.
C10_InjectPassesThrough ==
  [][(/\ result'.op = "inject"
      /\ (result'.data.t # "dict" \/ ~_tracer_initialized))
     => /\ result'.same
        /\ result'.ret = result'.data
        /\ result'.arg = result'.data
        /\ ~HasKey(result'.ret, "_execution_trace")
        /\ _execution_trace' = _execution_trace
        /\ _tracer_initialized' = _tracer_initialized]_vars

C10_Witness ==
  /\ result.op = "inject"
  /\ result.data.t = "list"
  /\ _tracer_initialized
  /\ Len(Steps) > 0

\* the summary _get_trace_summary would build now
CurrentSummary == _get_trace_summary(_execution_trace, now)

\* _get_trace_summary has just returned the summary of the current trace (no
\* operation has touched the trace since)
SummaryReturned == result.op = "summary" /\ HasTrace(_execution_trace)

\* the steps array of the summary just returned
ReturnedSteps == DictGet(result.ret.d, PyStr("steps")).l

\* C11: right after _reset_tracer the instance has no trace and is not
\* initialized (its summary is the empty dict); and the summary returned for a
\* trace without failure has as total_steps the number of decorated calls
\* completed since the reset (or since construction), status "completed" and no
\* error_summary, whatever the trace before the reset held.
C11_ResetStartsFreshTrace ==
  /\ result.op = "reset" =>
       /\ ~HasTrace(_execution_trace)
       /\ ~_tracer_initialized
       /\ completed = 0
       /\ CurrentSummary = PyDict(<<>>)
  /\ (SummaryReturned /\ ~HasFailedStep) =>
       /\ DictGet(result.ret.d, PyStr("total_steps")) = PyInt(completed)
       /\ DictGet(result.ret.d, PyStr("status")) = PyStr("completed")
       /\ ~HasKey(result.ret, "error_summary")
  /\ (HasTrace(_execution_trace) /\ ~HasFailedStep) =>
       \A k \in 1..Len(Steps) : Steps[k].step_index < Len(Steps)

\* a trace with one summarised call was reset away, one call has completed since,
\* and the summary returned counts that one
C11_Witness ==
  /\ discarded = 1
  /\ completed = 1
  /\ calls = 2
  /\ SummaryReturned
  /\ DictGet(result.ret.d, PyStr("total_steps")) = PyInt(1)
  /\ ~HasFailedStep
  /\ stack = <<>>

\* _get_trace_summary has just been called on an instance on which no decorated
\* method was ever called
SummaryBeforeAnyCall == result.op = "summary" /\ calls = 0

\* C12: on an instance with tracing capability on which no decorated method has
\* ever been called, _get_trace_summary returns a summary whose steps array is
\* empty and whose total_steps is 0.
C12_EmptyStepsWithoutCalls ==
  SummaryBeforeAnyCall =>
    /\ HasKey(result.ret, "steps")
    /\ HasKey(result.ret, "total_steps")
    /\ DictGet(result.ret.d, PyStr("steps")) = PyList(<<>>)
    /\ DictGet(result.ret.d, PyStr("total_steps")) = PyInt(0)

\* C12 as amended: on such an instance _get_trace_summary returns the empty dict,
\* without the keys steps and total_steps; only when _auto_init_tracer was called
\* on it explicitly does it return a summary, with an empty steps array and
\* total_steps 0.
C12_EmptyDictWithoutTrace ==
  SummaryBeforeAnyCall =>
    IF HasTrace(_execution_trace)
    THEN /\ _tracer_initialized
         /\ DictGet(result.ret.d, PyStr("steps")) = PyList(<<>>)
         /\ DictGet(result.ret.d, PyStr("total_steps")) = PyInt(0)
    ELSE /\ result.ret = PyDict(<<>>)
         /\ ~HasKey(result.ret, "steps")
         /\ ~HasKey(result.ret, "total_steps")

C12_Witness ==
  /\ SummaryBeforeAnyCall
  /\ ~HasTrace(_execution_trace)
  /\ result.ret = PyDict(<<>>)

\* C13: _auto_init_tracer is idempotent within one execution. The call that finds
\* the flag unset creates the trace with status "running" and an empty step list
\* (to which a decorated call at once adds its STARTED step); while the flag stays
\* set, every later call, explicit or at the start of a decorated call, keeps the
\* same trace: its name and start time stay, and its step list only grows at the
\* end, so no step is lost.
C13_AutoInitIdempotent ==
  [][/\ (~_tracer_initialized /\ _tracer_initialized') =>
          /\ HasTrace(_execution_trace')
          /\ _execution_trace'[1].status = "running"
          /\ _execution_trace'[1].started_at = IsoZ(now)
          /\ _execution_trace'[1].error_summary = PyNone
          /\ IF calls' = calls
             THEN _execution_trace'[1].steps = <<>>
             ELSE /\ Len(_execution_trace'[1].steps) <= 1
                  /\ \A k \in 1..Len(_execution_trace'[1].steps) :
                       /\ _execution_trace'[1].steps[k].status = "started"
                       /\ _execution_trace'[1].steps[k].step_index = 0
     /\ (_tracer_initialized /\ _tracer_initialized') =>
          /\ HasTrace(_execution_trace)
          /\ HasTrace(_execution_trace')
          /\ _execution_trace'[1].agent_name = _execution_trace[1].agent_name
          /\ _execution_trace'[1].started_at = _execution_trace[1].started_at
          /\ Len(_execution_trace[1].steps) <= Len(_execution_trace'[1].steps)
          /\ SubSeq(_execution_trace'[1].steps, 1, Len(_execution_trace[1].steps))
               = _execution_trace[1].steps
          /\ (calls' = calls /\ stack' = stack) => _execution_trace' = _execution_trace
    ]_vars

\* the steps of two decorated calls, the second started after the clock moved, are
\* in the one trace created for the first
C13_Witness ==
  /\ _tracer_initialized
  /\ calls = 2
  /\ Len(Steps) = 4
  /\ _execution_trace[1].started_at = IsoZ(0)
  /\ now = ClockStep
  /\ stack = <<>>

\* an entry point has just returned (it did not raise on the shape of the result)
EntryReturned == result.op \in {"Tool", "PreProcessor"} /\ ~result.raises

\* the instance has tracing capability and an initialized trace
TracingActive == HasTracedAgent(receiver) /\ _tracer_initialized

\* C14: Tool.__new__ and PreProcessor.__new__, the user's execute / process having
\* run, return their ordinary result with the trace summary appended as one more
\* trailing element when the instance has tracing capability and an initialized
\* trace, and their ordinary result with no extra element when it does not.
\* (The first half is stated of the executions in which a decorated call has
\* completed and none has failed.)
C14_EntryPointsAppendSummary ==
  EntryReturned =>
    IF TracingActive
    THEN (completed >= 1 /\ ~HasFailedStep) =>
           result.ret = PyTuple(result.ordinary
                                \o <<_get_trace_summary(_execution_trace, result.at)>>)
    ELSE result.ret = IF Len(result.ordinary) = 1 THEN result.ordinary[1]
                      ELSE PyTuple(result.ordinary)

\* C15: _wrap_execute_result(result) returns a 2-tuple whose first element is
\* result as passed; the second is the trace summary when the instance has tracing
\* capability and its tracer is initialized, and the empty dict otherwise (no
\* tracing capability, no decorated method called yet, or the tracer reset).
C15_WrapReturnsResultAndTraces ==
  result.op = "wrap" =>
    /\ result.ret.t = "tuple"
    /\ Len(result.ret.l) = 2
    /\ result.ret.l[1] = result.arg
    /\ IF TracingActive
       THEN /\ result.ret.l[2] = _get_trace_summary(_execution_trace, result.at)
            /\ HasKey(result.ret.l[2], "steps")
            /\ DictGet(result.ret.l[2].d, PyStr("agent_name")) = PyStr(receiver)
            /\ DictGet(result.ret.l[2].d, PyStr("total_steps")).i
                 = Cardinality({i \in Indices : TerminalAt(i) # {}})
       ELSE result.ret.l[2] = PyDict(<<>>)
    /\ (~HasTracedAgent(receiver) \/ ~HasTrace(_execution_trace)) =>
         result.ret.l[2] = PyDict(<<>>)

\* a rule whose logic called one decorated method gets (False, summary of one step)
C15_Witness ==
  /\ result.op = "wrap"
  /\ result.arg = PyBool(FALSE)
  /\ TracingActive
  /\ Len(Steps) = 2
  /\ DictGet(result.ret.l[2].d, PyStr("total_steps")) = PyInt(1)

\* the step indices that have a terminal step
TerminalIndices == {i \in Indices : TerminalAt(i) # {}}

\* the status a summary entry shows for a terminal step
EntryStatus(step) == PyStr(IF step.status = "completed" THEN "ok" ELSE "failed")

\* the summary entry e is the one of step index i: the method and the input of
\* its STARTED step, the outcome of its terminal step
EntryOf(e, i) ==
  /\ \A k \in StartedAt(i) :
       /\ DictGet(e.d, PyStr("class")) = PyStr(Steps[k].class_name)
       /\ DictGet(e.d, PyStr("method")) = PyStr(Steps[k].method_name)
       /\ DictGet(e.d, PyStr("input")) = Steps[k].input_data
  /\ \A k \in TerminalAt(i) :
       /\ DictGet(e.d, PyStr("status")) = EntryStatus(Steps[k])
       /\ Steps[k].status = "completed" =>
            DictGet(e.d, PyStr("output")) = Steps[k].output_data
       /\ Steps[k].status = "failed" =>
            DictGet(e.d, PyStr("error")) = Steps[k].error

\* C16: the summary returned has one entry for each step_index that has a COMPLETED or
\* FAILED step and none for an index that has only a STARTED step; total_steps is
\* the number of entries emitted.
C16_OneEntryPerTerminalIndex ==
  SummaryReturned =>
    LET entries == ReturnedSteps
    IN  /\ Len(entries) = Cardinality(TerminalIndices)
        /\ DictGet(result.ret.d, PyStr("total_steps")) = PyInt(Len(entries))
        /\ \A k \in 1..Len(entries) :
             /\ HasKey(entries[k], "status")
             /\ DictGet(entries[k].d, PyStr("status")) \in {PyStr("ok"), PyStr("failed")}
        /\ \A i \in TerminalIndices :
             \E k \in 1..Len(entries) : EntryOf(entries[k], i)

\* the outer call is still in flight (STARTED only) and the call nested in it has
\* completed: the summary has the nested call's entry alone
C16_Witness ==
  /\ SummaryReturned
  /\ Len(stack) = 1
  /\ Len(Steps) = 3
  /\ TerminalAt(0) = {}
  /\ TerminalAt(1) # {}
  /\ Steps[1].method_name = "execute"
  /\ Len(ReturnedSteps) = 1
  /\ DictGet(ReturnedSteps[1].d, PyStr("method")) = PyStr("_authenticate")

\* C17: the summary returned lists its steps in ascending step_index, which is the order
\* in which the calls started (an outer call before the calls nested in it), and
\* the order fields are 1, 2, ..., total_steps without gap or repeat, also when
\* groups are dropped.
C17_AscendingIndexAndOrder ==
  HasTrace(_execution_trace) =>
    /\ SummaryReturned =>
         LET entries == ReturnedSteps
         IN  /\ \A k \in 1..Len(entries) :
                  DictGet(entries[k].d, PyStr("order")) = PyInt(k)
             /\ \A i \in TerminalIndices :
                  /\ SummaryPos(i) \in 1..Len(entries)
                  /\ EntryOf(entries[SummaryPos(i)], i)
    /\ \A i, j \in Indices :
         i < j => \A a \in StartedAt(i) : \A b \in StartedAt(j) : a < b
    /\ \A k \in 1..Len(stack) : \A j \in Indices :
         (stack[k].traced /\ \E b \in StartedAt(j) : \E a \in StartedAt(stack[k].step_index) : a < b)
           => stack[k].step_index < j

\* two calls of different methods have ended, the first by an exception: the
\* summary lists them in the order they started
C17_Witness ==
  /\ SummaryReturned
  /\ stack = <<>>
  /\ Len(ReturnedSteps) = 2
  /\ DictGet(ReturnedSteps[1].d, PyStr("method")) = PyStr("execute")
  /\ DictGet(ReturnedSteps[1].d, PyStr("status")) = PyStr("failed")
  /\ DictGet(ReturnedSteps[2].d, PyStr("method")) = PyStr("_authenticate")
  /\ DictGet(ReturnedSteps[2].d, PyStr("order")) = PyInt(2)

\* C18: the summary returned for every trace made by _auto_init_tracer and decorated calls
\* has status "completed" or "failed", never "running" or "pending": a running
\* trace is reported as "completed", a failed one as "failed", and the key
\* error_summary is in the summary exactly when its status is "failed".
C18_SummaryStatusNormalised ==
  SummaryReturned =>
    LET summary == result.ret
        status == DictGet(summary.d, PyStr("status"))
    IN  /\ status \in {PyStr("completed"), PyStr("failed")}
        /\ _execution_trace[1].status = "running" => status = PyStr("completed")
        /\ _execution_trace[1].status = "failed" => status = PyStr("failed")
        /\ HasKey(summary, "error_summary") <=> status = PyStr("failed")
        /\ HasKey(summary, "error_summary") =>
             DictGet(summary.d, PyStr("error_summary"))
               = _execution_trace[1].error_summary

\* a running trace with a call in flight and a call completed
C18_Witness ==
  /\ SummaryReturned
  /\ _execution_trace[1].status = "running"
  /\ Len(stack) = 1
  /\ Len(Steps) = 3
  /\ DictGet(result.ret.d, PyStr("status")) = PyStr("completed")
  /\ ~HasKey(result.ret, "error_summary")

DepthMarker == PyStr("<max_depth_exceeded>")

\* the elements of a list, a tuple or a dict (none for any other value)
Children(v) ==
  IF v.t \in {"list", "tuple"} THEN {v.l[i] : i \in 1..Len(v.l)}
  ELSE IF v.t = "dict" THEN {v.d[i][2] : i \in 1..Len(v.d)}
  ELSE {}

\* the values found n levels below v
RECURSIVE AtLevel(_, _)
AtLevel(v, n) ==
  IF n = 0 THEN {v} ELSE UNION {AtLevel(c, n - 1) : c \in Children(v)}

\* how many lists / dicts are nested in v, v included
RECURSIVE Nesting(_)
Nesting(v) ==
  IF v.t \notin {"list", "tuple", "dict"} THEN 0
  ELSE IF Children(v) = {} THEN 1
  ELSE 1 + (CHOOSE m \in {Nesting(c) : c \in Children(v)} :
              \A k \in {Nesting(c) : c \in Children(v)} : k <= m)

\* the notes the 50-item limit leaves in place of the items it drops
CutNotes ==
  { PyStr("<" \o ToString(k) \o " more items>") : k \in 1..(LongLen - MaxItems) }
  \cup { PyStr(ToString(k) \o " more keys") : k \in 1..(LongLen - MaxItems) }

\* a call of _serialize_value has just returned
Serialized == result.op = "serialize" /\ ~result.raises

\* C19: _serialize_value is depth-bounded. With max_depth <= 0 it returns
\* "<max_depth_exceeded>" for every value (None included); with max_depth = d >= 1
\* the result nests lists and dicts at most d deep, and every value d levels below
\* the root, container or not, is replaced by the marker.
C19_DepthBounded ==
  Serialized =>
    /\ result.max_depth <= 0 => result.ret = DepthMarker
    /\ result.max_depth >= 1 =>
         /\ Nesting(result.ret) <= result.max_depth
         /\ AtLevel(result.ret, result.max_depth) \subseteq {DepthMarker}

\* C19 as amended: as C19, but d levels below the root the result holds, beside
\* the markers, the note of the 50-item limit where a container one level above
\* was cut: the items past the 50th are dropped, not replaced by the marker. The
\* root is serialized, not replaced, when d >= 1, and no marker appears less than
\* d levels down. (The call always ends: the only way it raises is str(value) on
\* a value less than d levels below the root.)
C19_DepthBoundedBesideCutNotes ==
  /\ Serialized =>
       /\ result.max_depth <= 0 => result.ret = DepthMarker
       /\ result.max_depth >= 1 =>
            /\ result.ret # DepthMarker
            /\ Nesting(result.ret) <= result.max_depth
            /\ AtLevel(result.ret, result.max_depth) \subseteq {DepthMarker} \cup CutNotes
            /\ \A n \in 0..(result.max_depth - 1) :
                 DepthMarker \notin AtLevel(result.ret, n)
            /\ AtLevel(result.value, result.max_depth) # {}
                 => DepthMarker \in AtLevel(result.ret, result.max_depth)
            /\ (\A n \in 0..(result.max_depth - 1) : \A v \in AtLevel(result.value, n) :
                    Cardinality(Children(v)) <= MaxItems)
                 => AtLevel(result.ret, result.max_depth) \subseteq {DepthMarker}
  /\ (result.op = "serialize" /\ result.raises) =>
       \E n \in 0..(result.max_depth - 1) : Unprintable \in AtLevel(result.value, n)

\* a value four containers deep serialized with max_depth 2: what lies two
\* levels down, an unprintable object included, has become the marker
C19_Witness ==
  /\ Serialized
  /\ result.max_depth = 2
  /\ Nesting(result.value) = 4
  /\ Unprintable \in AtLevel(result.value, 4)
  /\ Nesting(result.ret) = 2
  /\ DepthMarker \in AtLevel(result.ret, 2)

\* C20: serializing a list or tuple of n elements (max_depth >= 1) yields a list:
\* for n <= 50 its n elements are the serializations of the input's elements, in
\* order; for n > 50 it has exactly 51 elements, the serializations of the first 50
\* elements in order and then the string "<n-50 more items>".
C20_SequenceTruncatedAtFifty ==
  (Serialized /\ result.value.t \in {"list", "tuple"} /\ result.max_depth >= 1) =>
    LET n == Len(result.value.l)
        kept == IF n <= 50 THEN n ELSE 50
        Elem(i) == _serialize_value(result.value.l[i], result.max_depth - 1,
                                    result.max_length)
    IN  /\ result.ret.t = "list"
        /\ Len(result.ret.l) = IF n <= 50 THEN n ELSE 51
        /\ \A i \in 1..kept :
             /\ result.ret.l[i] = Elem(i)
             /\ (result.max_depth >= 2 /\ result.value.l[i].t = "int")
                  => result.ret.l[i] = result.value.l[i]
             /\ result.max_depth = 1 => result.ret.l[i] = DepthMarker
        /\ n > 50 => result.ret.l[51] = PyStr("<" \o ToString(n - 50) \o " more items>")
        /\ n = 100 => result.ret.l[51] = PyStr("<50 more items>")

\* tuple(range(100)) serialized with the default bounds
C20_Witness ==
  /\ Serialized
  /\ result.value.t = "tuple"
  /\ Len(result.value.l) = 100
  /\ result.max_depth = DefaultMaxDepth
  /\ result.max_length = DefaultMaxLength
  /\ result.ret.t = "list"
  /\ Len(result.ret.l) = 51
  /\ result.ret.l[50] = PyInt(49)

\* SafeValue: None, a boolean, a number, a string, a list of safe values, or a
\* mapping whose keys are strings and whose values are safe
RECURSIVE IsSafeValue(_)
IsSafeValue(v) ==
  \/ v.t \in {"none", "bool", "int", "float", "str"}
  \/ /\ v.t = "list"
     /\ \A i \in 1..Len(v.l) : IsSafeValue(v.l[i])
  \/ /\ v.t = "dict"
     /\ \A i \in 1..Len(v.d) : v.d[i][1].t = "str" /\ IsSafeValue(v.d[i][2])

\* C21: for every input value, the result of _serialize_value is built only from
\* None, booleans, numbers, strings, lists and mappings whose keys are all
\* strings: no tuple, set, object or non-string mapping key appears in it.
C21_ResultIsSafeValue ==
  Serialized => IsSafeValue(result.ret)

\* the names a call record passed explicitly, positionally or by keyword
Passed(params, r) ==
  {params[i + 1] : i \in 1..r.npos} \cup {r.kwnames[j] : j \in 1..Len(r.kwnames)}

\* the call of the record passed every parameter after the receiver
PassedAll(params, r) == Passed(params, r) = {params[i] : i \in 2..Len(params)}

\* the calls of _extract_args made so far
Extracted == IF result.op = "extract" THEN result.done ELSE {}

\* C22: for a method with declared parameters, the calls that pass every
\* non-receiver argument (all by keyword, all positionally, or a positional prefix
\* and the rest by keyword) record the same input mapping.
C22_KeywordSameAsPositional ==
  \A r1, r2 \in Extracted :
    (PassedAll(result.params, r1) /\ PassedAll(result.params, r2)) =>
      /\ r1.raises = r2.raises
      /\ r1.ret = r2.ret

\* the keys of a mapping
Keys(v) == {v.d[i][1] : i \in 1..Len(v.d)}

\* C23: the input mapping recorded for a call has as keys exactly the declared
\* non-receiver parameters that the caller passed explicitly, positionally or by
\* keyword, each with the serialization of the value passed: the receiver is not
\* in it, and a parameter left to its default is omitted.
C23_KeysAreThePassedParameters ==
  \A r \in Extracted :
    ~r.raises =>
      /\ r.ret.t = "dict"
      /\ Keys(r.ret) = {PyStr(name) : name \in Passed(result.params, r)}
      /\ PyStr(result.params[1]) \notin Keys(r.ret)
      /\ \A name \in Passed(result.params, r) :
           DictGet(r.ret.d, PyStr(name))
             = _serialize_value(ValueFor(result.params, result.values, name),
                                DefaultMaxDepth, DefaultMaxLength)

\* the decorated method called name
MethodNamed(name) == CHOOSE m \in CaptureMethods : m.name = name

\* a decorated method is running on an instance with a trace, its STARTED step
\* recorded
TracedInFlight == stack # <<>> /\ ~Pending /\ Top.traced

\* C24: for a method decorated with capture_input=False the STARTED step's
\* input_data is None, and with capture_output=False the COMPLETED step's
\* output_data is None. Hence the step recorded at the start of such a call is the
\* same whatever the arguments, and the trace (and the way the wrapper ends) after
\* its normal return is the same whatever the value returned.
C24_NoCaptureRecordsNone ==
  /\ \A k \in 1..Len(Steps) :
       LET m == MethodNamed(Steps[k].method_name)
       IN  /\ (Steps[k].status = "started" /\ ~m.capture_input) =>
                Steps[k].input_data = PyNone
           /\ (Steps[k].status = "completed" /\ ~m.capture_output) =>
                Steps[k].output_data = PyNone
  /\ (TracedInFlight /\ ~Top.method.capture_input) =>
       \A s1, s2 \in CallShapes(Top.method) :
         /\ StartedStep(Top, s1.args, s1.kwargs) = StartedStep(Top, s2.args, s2.kwargs)
         /\ \A k \in StartedAt(Top.step_index) :
              Steps[k] = StartedStep(Top, s1.args, s1.kwargs)
  /\ (TracedInFlight /\ ~Top.method.capture_output) =>
       \A v1, v2 \in ReturnValues :
         /\ WrapperOnReturn(Top, v1, _execution_trace, now)
              = WrapperOnReturn(Top, v2, _execution_trace, now)
         /\ ~WrapperOnReturn(Top, v1, _execution_trace, now).raises

\* _lookup has been called and has returned, then _sign has been called and has
\* returned a dict: the step list shows neither the argument of the first nor
\* the value returned by the second
C24_Witness ==
  /\ outcome.kind = "return"
  /\ outcome.method = "_sign"
  /\ outcome.mval = PyDict(<<<<PyStr("ok"), PyInt(1)>>>>)
  /\ outcome.traced
  /\ Len(Steps) = 4
  /\ Steps[1].method_name = "_lookup"
  /\ Steps[1].input_data = PyNone
  /\ Steps[2].status = "completed"
  /\ Steps[4].status = "completed"
  /\ Steps[4].output_data = PyNone
  /\ Steps[3].input_data # PyNone

\* two different calls have been given the same step_index
IndexCollision == \E i \in Indices : Cardinality(StartedAt(i)) >= 2

\* some thread has been in the wrapper while another thread was
ThreadsOverlapped ==
  threads # <<>> /\ \E t \in 1..NThreads : threads[t].overlapped

\* C25: the wrapper takes no lock, and two threads running decorated methods on
\* the same instance interleave their steps in the one step list: two different
\* calls can get the same step_index, and the summary then merges them into one
\* entry. With one execution on the instance at a time (no thread ever in the
\* wrapper while another is) no index is on two STARTED or two terminal steps.
C25_CollisionOnlyWhenThreadsOverlap ==
  /\ IndexCollision => ThreadsOverlapped
  /\ ~ThreadsOverlapped =>
       \A i \in Indices : Cardinality(StartedAt(i)) = 1 /\ Cardinality(TerminalAt(i)) <= 1

\* both threads read len(steps) = 0 before either appended: the two calls, of
\* different methods, have index 0, both have returned, and the summary has one
\* entry for the two
C25_Witness ==
  /\ threads # <<>>
  /\ \A t \in 1..NThreads : threads[t].pc = "idle"
  /\ calls = 2
  /\ Len(Steps) = 4
  /\ Cardinality(StartedAt(0)) = 2
  /\ Cardinality(TerminalAt(0)) = 2
  /\ \E k1, k2 \in StartedAt(0) : Steps[k1].method_name # Steps[k2].method_name
  /\ ~HasFailedStep
  /\ TotalSteps(_execution_trace, now) = 1

\* the messages of a list
Messages(l) == {l[i] : i \in 1..Len(l)}

\* C26: BroadcastEvent.scope() isolates pending messages. The pending list is
\* empty on entry to a scope; the messages registered inside are pending only
\* inside it (not after it, not in another thread); and on exit, normal or by an
\* exception, of a nested scope as well, the pending list is again the list that
\* was pending just before the scope was entered, which no operation made inside
\* the scope has changed.
C26_ScopeIsolatesPending ==
  contexts # <<>> =>
    /\ result.op = "scope_enter" => PendingIn(contexts[result.ctx]) = <<>>
    /\ result.op = "scope_exit" =>
         /\ PendingIn(contexts[result.ctx]) = result.token.before
         /\ Messages(PendingIn(contexts[result.ctx])) \cap result.token.inside = {}
         /\ Messages(result.seen) \subseteq result.token.inside
    /\ \A c \in Contexts :
         /\ \A k \in 1..Len(contexts[c].tokens) :
              LET token == contexts[c].tokens[k]
              IN  /\ token.before = IF token.old = 0 THEN <<>>
                                    ELSE contexts[c].lists[token.old]
                  /\ Messages(PendingIn(contexts[c])) \subseteq token.inside
         /\ \A m \in Messages(PendingIn(contexts[c])) : m.text[1] = c

\* the main thread, with one message pending, entered a scope and in it a nested
\* scope, registered a message in the nested scope and left it by an exception:
\* the scope around it has no message pending, as before
C26_Witness ==
  /\ contexts # <<>>
  /\ result.op = "scope_exit"
  /\ result.ctx = "main"
  /\ result.raised
  /\ Len(contexts["main"].tokens) = 1
  /\ contexts["main"].tokens[1].before = <<Payload("main", 1)>>
  /\ result.seen = <<Payload("main", 2)>>
  /\ result.token.before = <<>>
  /\ PendingIn(contexts["main"]) = <<>>

\* C27: after any sequence of _auto_init_tracer, decorated calls,
\* _get_trace_summary, _inject_trace and _reset_tracer on an instance, the flag
\* _tracer_initialized is true if and only if the instance has an
\* _execution_trace; so _inject_trace, which tests the flag, stores a summary into
\* a dict exactly when the instance has a trace, and that summary is never the
\* empty dict, while _get_trace_summary, which tests the attribute, returns the
\* empty dict exactly when the flag is unset.
C27_FlagIffTrace ==
  /\ _tracer_initialized <=> HasTrace(_execution_trace)
  /\ (result.op = "inject" /\ result.data.t = "dict") =>
       /\ HasKey(result.ret, "_execution_trace") <=> HasTrace(_execution_trace)
       /\ HasKey(result.ret, "_execution_trace") =>
            DictGet(result.ret.d, PyStr("_execution_trace")) # PyDict(<<>>)
  /\ result.op = "summary" =>
       (result.ret = PyDict(<<>>) <=> ~_tracer_initialized)

\* a trace was reset away, a decorated call has run since, and _inject_trace has
\* stored the summary of the new trace into a dict
C27_Witness ==
  /\ result.op = "inject"
  /\ result.data.t = "dict"
  /\ discarded = 1
  /\ completed = 1
  /\ _tracer_initialized
  /\ HasTrace(_execution_trace)
  /\ HasKey(result.ret, "_execution_trace")

\* C28: every call of the wrapper invokes the wrapped method exactly once, on
\* every path (receiver without tracing, traced call that returns, traced call
\* that raises): when a wrapper activation has ended, its method has run and has
\* returned or raised, and no two activations in flight are one call.
C28_MethodInvokedExactlyOnce ==
  /\ outcome.kind # "none" => outcome.mkind \in {"return", "raise"}
  /\ \A j, k \in 1..Len(stack) : j # k => stack[j].call # stack[k].call
  /\ Len(stack) <= calls

\* the exception that ended the wrapper activation came out of a call its method
\* made (it was created during another activation) and was not caught
NestedRaiseNotCaught ==
  TracedExit /\ outcome.mkind = "raise" /\ outcome.mexc.id # outcome.call

\* C29: the step list of nested calls is well nested: when the STARTED step of
\* B lies between the STARTED and the terminal step of A, so does the terminal
\* step of B; and when B raises and A does not catch it, the last step is A's
\* FAILED step, after a FAILED step of B with the same error string.
C29_StepsWellNested ==
  /\ \A i, j \in Indices : \A si \in StartedAt(i) : \A sj \in StartedAt(j) :
        \A ti \in TerminalAt(i) :
          (si < sj /\ sj < ti) => \E tj \in TerminalAt(j) : sj < tj /\ tj < ti
  /\ NestedRaiseNotCaught =>
        /\ Len(Steps) >= 2
        /\ LastStep.status = "failed"
        /\ LastStep.step_index = outcome.step_index
        /\ \E k \in 1..(Len(Steps) - 1) :
              /\ Steps[k].status = "failed"
              /\ Steps[k].step_index > outcome.step_index
              /\ Steps[k].error = LastStep.error

\* the wrapper activation that just ended on a traced instance began before a
\* _reset_tracer called while it was in flight
ExitAfterReset == TracedExit /\ outcome.call <= reset_at

\* C30: when _reset_tracer is called while a traced call is in flight, the
\* wrapper of that call still ends as its method did (it returns the method's
\* result, or raises the method's own exception), and appends no terminal
\* step to a trace created after the reset.
C30_ResetInFlightIsHarmless ==
  ExitAfterReset =>
    /\ outcome.mkind = "return" => outcome.kind = "return" /\ outcome.val = outcome.mval
    /\ outcome.mkind = "raise" => outcome.kind = "raise" /\ outcome.exc = outcome.mexc
    /\ ~(Steps # <<>> /\ Terminal(LastStep) /\ LastStep.step_index = outcome.step_index
           /\ LastStep.method_name = outcome.method)

====
